---------------------------- MODULE Spec2Model ----------------------------
(***************************************************************************)
(* rlox: a tree-walking interpreter for Lox.                               *)
(*                                                                         *)
(* The module models the pipeline of lox.rs (scan, parse, resolve,         *)
(* interpret), the scanner, the parser, the resolver, the environment      *)
(* chain, the callables and the interpreter.  A source text is a sequence  *)
(* of one-character strings.  Each stage is a function on records, written *)
(* after the Rust function of the same name; the actions of the state      *)
(* machine are the steps of lox.rs.                                        *)
(***************************************************************************)
EXTENDS Integers, Sequences, FiniteSets, TLC

(***************************************************************************)
(* Bounds of the model.                                                    *)
(***************************************************************************)
\* The longest source text of the enumerated runs, in words of Vocabulary.
MaxWords == 3
\* The longest program of a statement menu, in statements.
MaxCalls == 2

(***************************************************************************)
(* Characters.                                                             *)
(***************************************************************************)
Digits == {"0", "1", "2", "3", "4", "5", "6", "7", "8", "9"}

Letters ==
    {"a", "b", "c", "d", "e", "f", "g", "h", "i", "j", "k", "l", "m",
     "n", "o", "p", "q", "r", "s", "t", "u", "v", "w", "x", "y", "z",
     "A", "B", "C", "D", "E", "F", "G", "H", "I", "J", "K", "L", "M",
     "N", "O", "P", "Q", "R", "S", "T", "U", "V", "W", "X", "Y", "Z"}

is_digit(c) == c \in Digits

is_alpha(c) == c \in Letters \/ c = "_"

is_alpha_numeric(c) == is_alpha(c) \/ is_digit(c)

\* The character peek() gives past the end of the source.
NUL == "NUL"

(***************************************************************************)
(* Numbers.  An f64 is modelled by a rational num/den in lowest terms,     *)
(* den > 0; the literals and the results of the programs checked here are  *)
(* exactly representable.                                                  *)
(***************************************************************************)
RECURSIVE Gcd(_, _)
Gcd(a, b) == IF b = 0 THEN a ELSE Gcd(b, a % b)

Abs(a) == IF a < 0 THEN -a ELSE a

Rat(n, d) ==
    LET g == Gcd(Abs(n), Abs(d))
        s == IF d < 0 THEN -1 ELSE 1
    IN  [num |-> (s * n) \div g, den |-> (s * d) \div g]

DigitValue(c) ==
    CASE c = "0" -> 0 [] c = "1" -> 1 [] c = "2" -> 2 [] c = "3" -> 3
      [] c = "4" -> 4 [] c = "5" -> 5 [] c = "6" -> 6 [] c = "7" -> 7
      [] c = "8" -> 8 [] c = "9" -> 9

\* str::parse::<f64> on a lexeme digits [ '.' digits ]: the value read so
\* far is acc/scale; it never fails on such a lexeme.
RECURSIVE ParseF64(_, _, _, _)
ParseF64(chars, acc, scale, seenDot) ==
    IF chars = <<>> THEN [ok |-> TRUE, value |-> Rat(acc, scale)]
    ELSE IF Head(chars) = "." THEN
        IF seenDot THEN [ok |-> FALSE, value |-> Rat(0, 1)]
        ELSE ParseF64(Tail(chars), acc, scale, TRUE)
    ELSE IF is_digit(Head(chars)) THEN
        ParseF64(Tail(chars), acc * 10 + DigitValue(Head(chars)),
                 IF seenDot THEN scale * 10 ELSE scale, seenDot)
    ELSE [ok |-> FALSE, value |-> Rat(0, 1)]

(***************************************************************************)
(* Tokens (token.rs, token_type.rs).  A token type is a record whose kind  *)
(* names the variant; Identifier, This and Super carry the scanner's key.  *)
(***************************************************************************)
TT(kind) == [kind |-> kind]

TTIdentifier(id, name) == [kind |-> "Identifier", id |-> id, name |-> name]

TTKeyed(kind, id) == [kind |-> kind, id |-> id]

TTString(text) == [kind |-> "String", text |-> text]

TTNumber(value) == [kind |-> "Number", value |-> value]

Token(token_type, lexeme, line) ==
    [token_type |-> token_type, lexeme |-> lexeme, line |-> line]

\* Token::to_name: the key and the name of an identifier-bearing token.
to_name(token) ==
    CASE token.token_type.kind = "Identifier" ->
            [panic |-> FALSE, id |-> token.token_type.id,
             name |-> token.token_type.name]
      [] token.token_type.kind = "This" ->
            [panic |-> FALSE, id |-> token.token_type.id, name |-> "this"]
      [] OTHER -> [panic |-> TRUE, id |-> -1, name |-> ""]

(***************************************************************************)
(* Scanner (scanner.rs).  A scanner is the record of the struct's fields   *)
(* and of the diagnostics it has written to standard error.                *)
(***************************************************************************)
ScannerNew(source) ==
    [source |-> source, tokens |-> <<>>, start |-> 0, current |-> 0,
     line |-> 1, identifier_key |-> 0, stumbled |-> FALSE, diags |-> <<>>]

ScanIsAtEnd(S) == S.current >= Len(S.source)

ScanPeek(S) == IF ScanIsAtEnd(S) THEN NUL ELSE S.source[S.current + 1]

ScanPeekNext(S) ==
    IF S.current + 1 >= Len(S.source) THEN NUL ELSE S.source[S.current + 2]

ScanAdvance(S) == [S EXCEPT !.current = @ + 1]

scanner_error(S, message) ==
    [S EXCEPT !.diags = Append(@, [line |-> S.line, message |-> message])]

RECURSIVE Join(_)
Join(chars) == IF chars = <<>> THEN "" ELSE Head(chars) \o Join(Tail(chars))

\* collect_lexeme(start, end): the characters source[start..end].
collect_chars(S, start, end) == SubSeq(S.source, start + 1, end)

collect_lexeme(S, start, end) == Join(collect_chars(S, start, end))

add_token(S, token_type) ==
    [S EXCEPT !.tokens =
        Append(@, Token(token_type,
                        collect_lexeme(S, S.start, S.current), S.line))]

add_token_if(S, expected, success, failure) ==
    IF ~ScanIsAtEnd(S) /\ S.source[S.current + 1] = expected
    THEN add_token(ScanAdvance(S), success)
    ELSE add_token(S, failure)

RECURSIVE SkipComment(_)
SkipComment(S) ==
    IF ScanPeek(S) # "\n" /\ ~ScanIsAtEnd(S)
    THEN SkipComment(ScanAdvance(S)) ELSE S

slash(S) ==
    IF ~ScanIsAtEnd(S) /\ S.source[S.current + 1] = "/"
    THEN SkipComment(ScanAdvance(S))
    ELSE add_token(S, TT("Slash"))

RECURSIVE StringBody(_)
StringBody(S) ==
    IF ScanPeek(S) # "\"" /\ ~ScanIsAtEnd(S)
    THEN StringBody(ScanAdvance(
            IF ScanPeek(S) = "\n" THEN [S EXCEPT !.line = @ + 1] ELSE S))
    ELSE S

string(S) ==
    LET B == StringBody(S) IN
    IF ScanIsAtEnd(B)
    THEN [scanner_error(B, "Unterminated string.") EXCEPT !.stumbled = TRUE]
    ELSE LET C == ScanAdvance(B) IN
         add_token(C, TTString(collect_lexeme(C, C.start + 1, C.current - 1)))

RECURSIVE SkipDigits(_)
SkipDigits(S) ==
    IF is_digit(ScanPeek(S)) THEN SkipDigits(ScanAdvance(S)) ELSE S

number(S) ==
    LET A == SkipDigits(S)
        B == IF ScanPeek(A) = "." /\ is_digit(ScanPeekNext(A))
             THEN ScanAdvance(A) ELSE A
        C == SkipDigits(B)
        maybe_number == ParseF64(collect_chars(C, C.start, C.current), 0, 1, FALSE)
    IN  IF maybe_number.ok
        THEN add_token(C, TTNumber(maybe_number.value))
        ELSE [scanner_error(C, "Number cannot be represented with 64 bits.")
                EXCEPT !.stumbled = TRUE]

RECURSIVE SkipAlphaNumeric(_)
SkipAlphaNumeric(S) ==
    IF is_alpha_numeric(ScanPeek(S)) THEN SkipAlphaNumeric(ScanAdvance(S)) ELSE S

Keywords ==
    [and |-> "And", class |-> "Class", else |-> "Else", false |-> "False",
     for |-> "For", fun |-> "Fun", if |-> "If", nil |-> "Nil", or |-> "Or",
     print |-> "Print", return |-> "Return", true |-> "True", var |-> "Var",
     while |-> "While"]

\* A counter of keys that never moves.
NewKeyStuck(S) == S

\* new_key: the key handed out, and the counter moved on.
new_key(S) == [S EXCEPT !.identifier_key = @ + 1]

identifier(S) ==
    LET A == SkipAlphaNumeric(S)
        text == collect_lexeme(A, A.start, A.current)
    IN  IF text \in DOMAIN Keywords THEN add_token(A, TT(Keywords[text]))
        ELSE IF text = "super"
        THEN add_token(new_key(A), TTKeyed("Super", A.identifier_key))
        ELSE IF text = "this"
        THEN add_token(new_key(A), TTKeyed("This", A.identifier_key))
        ELSE add_token(new_key(A), TTIdentifier(A.identifier_key, text))

SingleChar ==
    ("(" :> "LeftParen") @@ (")" :> "RightParen") @@ ("{" :> "LeftBrace")
    @@ ("}" :> "RightBrace") @@ ("," :> "Comma") @@ ("." :> "Dot")
    @@ ("-" :> "Minus") @@ ("+" :> "Plus") @@ (";" :> "Semicolon")
    @@ ("*" :> "Star")

\* scan_token: one step of the scanner, from self.start = self.current.
scan_token(S0) ==
    LET c == S0.source[S0.current + 1]
        S == ScanAdvance(S0)
    IN  CASE c \in DOMAIN SingleChar -> add_token(S, TT(SingleChar[c]))
          [] c = "!" -> add_token_if(S, "=", TT("BangEqual"), TT("Bang"))
          [] c = "=" -> add_token_if(S, "=", TT("EqualEqual"), TT("Equal"))
          [] c = "<" -> add_token_if(S, "=", TT("LessEqual"), TT("Less"))
          [] c = ">" -> add_token_if(S, "=", TT("GreaterEqual"), TT("Greater"))
          [] c = "/" -> slash(S)
          [] c = "\"" -> string(S)
          [] c \in {" ", "\t"} -> S
          [] c = "\n" -> [S EXCEPT !.line = @ + 1]
          [] is_digit(c) -> number(S)
          [] is_alpha(c) -> identifier(S)
          [] OTHER -> scanner_error(S, "Unexpected character.")

\* One iteration of the loop of scan_tokens.
ScanStep(S) == scan_token([S EXCEPT !.start = S.current])

\* An end of scan_tokens that pushes nothing.
ScanFinishBare(S) == S

\* The end of scan_tokens: the EOF token is pushed.
ScanFinish(S) ==
    [S EXCEPT !.tokens = Append(@, Token(TT("EndOfFile"), NUL, S.line))]

RECURSIVE ScanLoop(_)
ScanLoop(S) == IF ScanIsAtEnd(S) THEN S ELSE ScanLoop(ScanStep(S))

scan_tokens(S) == ScanFinish(ScanLoop(S))

\* Scanner::consume.
ScannerConsume(S) ==
    IF S.stumbled THEN [ok |-> FALSE, error |-> "Scan", tokens |-> <<>>]
    ELSE [ok |-> TRUE, error |-> "", tokens |-> S.tokens]

(***************************************************************************)
(* Objects (object.rs): the literal values the parser builds.              *)
(***************************************************************************)
ObjNil == [tag |-> "Nil"]

ObjBoolean(b) == [tag |-> "Boolean", b |-> b]

ObjNumber(n) == [tag |-> "Number", n |-> n]

ObjString(s) == [tag |-> "String", s |-> s]

(***************************************************************************)
(* Syntax trees (expression.rs, statement.rs, callable.rs definitions).    *)
(* An absent Option is the record None.                                    *)
(***************************************************************************)
None == [node |-> "None"]

IsSome(o) == o # None

ExprAssignment(name, value) ==
    [node |-> "Assignment", name |-> name, value |-> value]

ExprBinary(left, operator, right) ==
    [node |-> "Binary", left |-> left, operator |-> operator, right |-> right]

ExprCall(callee, paren, arguments) ==
    [node |-> "Call", callee |-> callee, paren |-> paren,
     arguments |-> arguments]

ExprGet(object, name) == [node |-> "Get", object |-> object, name |-> name]

ExprGrouping(expression) == [node |-> "Grouping", expression |-> expression]

ExprLiteral(object) == [node |-> "Literal", literal |-> object]

ExprLogical(left, operator, right) ==
    [node |-> "Logical", left |-> left, operator |-> operator, right |-> right]

ExprSet(object, name, value) ==
    [node |-> "Set", object |-> object, name |-> name, value |-> value]

ExprSuper(keyword, method) ==
    [node |-> "Super", keyword |-> keyword, method |-> method]

ExprThis(keyword) == [node |-> "This", keyword |-> keyword]

ExprUnary(operator, right) ==
    [node |-> "Unary", operator |-> operator, right |-> right]

ExprVariable(name) == [node |-> "Variable", name |-> name]

StmtBlock(statements) == [node |-> "Block", statements |-> statements]

\* definitions::Class(name, parent, methods)
StmtClass(name, parent, methods) ==
    [node |-> "Class", name |-> name, parent |-> parent, methods |-> methods]

StmtExpression(expression) == [node |-> "Expression", expression |-> expression]

\* definitions::Function(name, parameters, body)
DefFunction(name, parameters, body) ==
    [name |-> name, parameters |-> parameters, body |-> body]

StmtFunction(definition) == [node |-> "Function", definition |-> definition]

StmtIf(condition, then_branch, else_branch) ==
    [node |-> "If", condition |-> condition, then_branch |-> then_branch,
     else_branch |-> else_branch]

StmtPrint(expression) == [node |-> "Print", expression |-> expression]

StmtReturn(keyword, value) ==
    [node |-> "Return", keyword |-> keyword, value |-> value]

StmtVar(name, initializer) ==
    [node |-> "Var", name |-> name, initializer |-> initializer]

StmtWhile(condition, body) ==
    [node |-> "While", condition |-> condition, body |-> body]

(***************************************************************************)
(* Parser (parser.rs).  A parser is the record of the token list, the      *)
(* position of the peekable iterator (pos is the index of the next token), *)
(* the statements, the stumbled flag and the diagnostics written.  A       *)
(* parsing function gives Ok(value, P) or Err(token, message, P), P being  *)
(* the parser after the call.                                              *)
(***************************************************************************)
\* Parser::parameters and Parser::finish_call diagnose a list longer than this.
MaxArity == 255

ParserNew(tokens) ==
    [tokens |-> tokens, pos |-> 1, statements |-> <<>>, stumbled |-> FALSE,
     diags |-> <<>>, panicked |-> FALSE, log |-> <<>>]

Ok(val, P) == [ok |-> TRUE, val |-> val, P |-> P]

Err(token, message, P) ==
    [ok |-> FALSE, token |-> token, message |-> message, P |-> P]

\* The `?` operator on an Err: the error is handed up as it is.
Raise(r) == Err(r.token, r.message, r.P)

PanicToken == Token(TT("Panic"), "", 0)

\* Parser::peek; past the end of the list the Rust code panics.
ParsePeek(P) ==
    IF P.pos <= Len(P.tokens) THEN P.tokens[P.pos] ELSE PanicToken

ParseIsAtEnd(P) == ParsePeek(P).token_type.kind = "EndOfFile"

ParseCheck(P, kind) ==
    IF ParseIsAtEnd(P) THEN FALSE ELSE ParsePeek(P).token_type.kind = kind

\* Parser::advance: the iterator moves on (a panic past the end).
ParseAdvance(P) ==
    IF P.pos <= Len(P.tokens) THEN [P EXCEPT !.pos = @ + 1]
    ELSE [P EXCEPT !.panicked = TRUE]

\* Parser::advance_if: Some(token) and the parser moved on, or None.
advance_if(P, kinds) ==
    IF \E k \in kinds : ParseCheck(P, k)
    THEN [some |-> TRUE, token |-> ParsePeek(P), P |-> ParseAdvance(P)]
    ELSE [some |-> FALSE, token |-> PanicToken, P |-> P]

expect(P, kind, message) ==
    IF ParseCheck(P, kind) THEN Ok(ParsePeek(P), ParseAdvance(P))
    ELSE Err(ParsePeek(P), message, P)

expect_identifier(P, message) ==
    IF ParsePeek(P).token_type.kind = "Identifier"
    THEN Ok(ParsePeek(P), ParseAdvance(P))
    ELSE Err(ParsePeek(P), message, P)

parse_error(P, token, message) ==
    [P EXCEPT !.diags = Append(@, [token |-> token, message |-> message])]

\* parser.rs to_object: the literal a token holds.
to_object(token) ==
    CASE token.token_type.kind = "False" -> ObjBoolean(FALSE)
      [] token.token_type.kind = "True" -> ObjBoolean(TRUE)
      [] token.token_type.kind = "Number" -> ObjNumber(token.token_type.value)
      [] token.token_type.kind = "String" -> ObjString(token.token_type.text)
      [] token.token_type.kind = "Nil" -> ObjNil

SyncKeywords ==
    {"Class", "For", "Fun", "If", "Print", "Return", "Var", "While"}

\* A recovery that stops after a semicolon or at the end only.
RECURSIVE SynchronizePastKeywords(_)
SynchronizePastKeywords(P) ==
    IF ParseIsAtEnd(P) \/ P.panicked THEN P
    ELSE IF ParsePeek(P).token_type.kind = "Semicolon" THEN ParseAdvance(P)
    ELSE SynchronizePastKeywords(ParseAdvance(P))

\* A recovery that discards no token.
SynchronizeStaying(P) == P

RECURSIVE synchronize(_)
synchronize(P) ==
    IF ParseIsAtEnd(P) \/ P.panicked THEN P
    ELSE IF ParsePeek(P).token_type.kind = "Semicolon" THEN ParseAdvance(P)
    ELSE IF ParsePeek(P).token_type.kind \in SyncKeywords THEN P
    ELSE synchronize(ParseAdvance(P))

\* The operators of each level of Parser::binary's callers, lowest first:
\* or, and, equality, comparison, term, factor.
LevelOperators ==
    << {"Or"}, {"And"}, {"BangEqual", "EqualEqual"},
       {"Greater", "GreaterEqual", "Less", "LessEqual"},
       {"Minus", "Plus"}, {"Slash", "Star"} >>

LevelNode(level, left, operator, right) ==
    IF level <= 2 THEN ExprLogical(left, operator, right)
    ELSE ExprBinary(left, operator, right)

LiteralKinds == {"False", "True", "Number", "String", "Nil"}

\* The grammar's functions call one another through Rule.
RECURSIVE Rule(_, _, _), ArgumentsLoop(_, _, _), ArgumentsStep(_),
          ArgumentsRun(_, _), ArgumentsGrow(_, _), ParametersStep(_),
          ParametersRun(_, _), ParametersGrow(_, _), CallLoop(_, _),
          BinaryLoop(_, _, _), assignment(_), BlockLoop(_, _),
          ParametersLoop(_, _, _), ClassMethods(_, _)

primary(P) ==
    LET next == ParsePeek(P)
        kind == next.token_type.kind
    IN  IF kind = "Identifier" THEN Ok(ExprVariable(next), ParseAdvance(P))
        ELSE IF kind \in LiteralKinds
        THEN Ok(ExprLiteral(to_object(next)), ParseAdvance(P))
        ELSE IF kind = "LeftParen" THEN
            LET group == Rule("expression", ParseAdvance(P), 0) IN
            IF ~group.ok THEN Raise(group) ELSE
            LET close == expect(group.P, "RightParen",
                                "Expect ')' after expression.") IN
            IF ~close.ok THEN Raise(close)
            ELSE Ok(ExprGrouping(group.val), close.P)
        ELSE IF kind = "This" THEN Ok(ExprThis(next), ParseAdvance(P))
        ELSE IF kind = "Super" THEN
            LET dot == expect(ParseAdvance(P), "Dot",
                              "Expect '.' after 'super'.") IN
            IF ~dot.ok THEN Raise(dot) ELSE
            LET method == expect_identifier(dot.P,
                              "Expect superclass method name.") IN
            IF ~method.ok THEN Raise(method)
            ELSE Ok(ExprSuper(next, method.val), method.P)
        ELSE Err(next, "Expect expression.", P)

\* The loop of finish_call after the first argument.
\* A loop body that reports every item past the cap.
ArgumentsStepRepeating(S) ==
    LET comma == advance_if(S.r.P, {"Comma"}) IN
    IF ~comma.some THEN [S EXCEPT !.open = FALSE] ELSE
    LET report == Len(S.r.val.arguments) >= MaxArity
        Q == IF report
             THEN [parse_error(comma.P, ParsePeek(comma.P),
                               "Can't have more than 255 arguments.")
                     EXCEPT !.stumbled = TRUE]
             ELSE comma.P
        argument == Rule("expression", Q, 0)
    IN  IF ~argument.ok
        THEN [r |-> Raise(argument), too_many |-> S.too_many, open |-> FALSE]
        ELSE [r |-> Ok([arguments |-> Append(S.r.val.arguments, argument.val)],
                       argument.P),
              too_many |-> S.too_many \/ report, open |-> TRUE]

\* Parser::finish_call, one turn of the while loop: r is the list so far and
\* the parser, or the error; open tells that the loop has not ended.
ArgumentsStep(S) ==
    LET comma == advance_if(S.r.P, {"Comma"}) IN
    IF ~comma.some THEN [S EXCEPT !.open = FALSE] ELSE
    LET report == ~S.too_many /\ Len(S.r.val.arguments) >= MaxArity
        Q == IF report
             THEN [parse_error(comma.P, ParsePeek(comma.P),
                               "Can't have more than 255 arguments.")
                     EXCEPT !.stumbled = TRUE]
             ELSE comma.P
        argument == Rule("expression", Q, 0)
    IN  IF ~argument.ok
        THEN [r |-> Raise(argument), too_many |-> S.too_many, open |-> FALSE]
        ELSE [r |-> Ok([arguments |-> Append(S.r.val.arguments, argument.val)],
                       argument.P),
              too_many |-> S.too_many \/ report, open |-> TRUE]

\* Up to count turns of the loop, as two halves one after the other.
ArgumentsRun(S, count) ==
    IF ~S.open THEN S
    ELSE IF count <= 1 THEN ArgumentsStep(S)
    ELSE ArgumentsRun(ArgumentsRun(S, count \div 2), count - (count \div 2))

\* The turns of the loop until it ends, in runs of growing length.
ArgumentsGrow(S, count) ==
    IF ~S.open THEN S ELSE ArgumentsGrow(ArgumentsRun(S, count), 2 * count)

\* Parser::finish_call, the while loop.
ArgumentsLoop(P, arguments, too_many) ==
    ArgumentsGrow([r |-> Ok([arguments |-> arguments], P), too_many |-> too_many,
                  open |-> TRUE], 1).r

finish_call(P, callee) ==
    LET list ==
            IF ParseCheck(P, "RightParen") THEN Ok([arguments |-> <<>>], P)
            ELSE LET first == Rule("expression", P, 0) IN
                 IF ~first.ok THEN Raise(first)
                 ELSE ArgumentsLoop(first.P, <<first.val>>, FALSE)
    IN  IF ~list.ok THEN Raise(list) ELSE
        LET paren == expect(list.P, "RightParen",
                            "Expect ')' after arguments.") IN
        IF ~paren.ok THEN Raise(paren)
        ELSE Ok(ExprCall(callee, paren.val, list.val.arguments), paren.P)

CallLoop(P, expr) ==
    LET paren == advance_if(P, {"LeftParen"}) IN
    IF paren.some THEN
        LET called == finish_call(paren.P, expr) IN
        IF ~called.ok THEN Raise(called) ELSE CallLoop(called.P, called.val)
    ELSE
    LET dot == advance_if(P, {"Dot"}) IN
    IF dot.some THEN
        LET name == expect_identifier(dot.P,
                        "Expect property name after '.'.") IN
        IF ~name.ok THEN Raise(name)
        ELSE CallLoop(name.P, ExprGet(expr, name.val))
    ELSE Ok(expr, P)

call(P) ==
    LET expr == primary(P) IN
    IF ~expr.ok THEN Raise(expr) ELSE CallLoop(expr.P, expr.val)

unary(P) ==
    LET operator == advance_if(P, {"Bang", "Minus"}) IN
    IF operator.some THEN
        LET right == Rule("unary", operator.P, 0) IN
        IF ~right.ok THEN Raise(right)
        ELSE Ok(ExprUnary(operator.token, right.val), right.P)
    ELSE call(P)

\* The operand of a level: the next level, and unary below factor.
Operand(P, level) ==
    IF level = Len(LevelOperators) THEN Rule("unary", P, 0)
    ELSE Rule("binary", P, level + 1)

BinaryLoop(P, level, left) ==
    LET operator == advance_if(P, LevelOperators[level]) IN
    IF ~operator.some THEN Ok(left, P) ELSE
    LET right == Operand(operator.P, level) IN
    IF ~right.ok THEN Raise(right)
    ELSE BinaryLoop(right.P, level,
                    LevelNode(level, left, operator.token, right.val))

binary(P, level) ==
    LET left == Operand(P, level) IN
    IF ~left.ok THEN Raise(left) ELSE BinaryLoop(left.P, level, left.val)

or(P) == Rule("binary", P, 1)

\* Parser::assignment with the invalid target diagnosed but not flagged.
AssignmentUnflagged(P) ==
    LET expr == or(P) IN
    IF ~expr.ok THEN Raise(expr) ELSE
    LET equals == advance_if(expr.P, {"Equal"}) IN
    IF ~equals.some THEN Ok(expr.val, expr.P) ELSE
    LET value == assignment(equals.P) IN
    IF ~value.ok THEN Raise(value)
    ELSE IF expr.val.node = "Variable"
    THEN Ok(ExprAssignment(expr.val.name, value.val), value.P)
    ELSE IF expr.val.node = "Get"
    THEN Ok(ExprSet(expr.val.object, expr.val.name, value.val), value.P)
    ELSE Ok(value.val,
            parse_error(value.P, equals.token, "Invalid assignment target."))

\* An assignment that hands up the bad target instead of the value.
AssignmentKeepingTarget(P) ==
    LET expr == or(P) IN
    IF ~expr.ok THEN Raise(expr) ELSE
    LET equals == advance_if(expr.P, {"Equal"}) IN
    IF ~equals.some THEN Ok(expr.val, expr.P) ELSE
    LET value == assignment(equals.P) IN
    IF ~value.ok THEN Raise(value)
    ELSE IF expr.val.node = "Variable"
    THEN Ok(ExprAssignment(expr.val.name, value.val), value.P)
    ELSE IF expr.val.node = "Get"
    THEN Ok(ExprSet(expr.val.object, expr.val.name, value.val), value.P)
    ELSE Ok(expr.val,
            [parse_error(value.P, equals.token, "Invalid assignment target.")
                EXCEPT !.stumbled = TRUE])

assignment(P) ==
    LET expr == or(P) IN
    IF ~expr.ok THEN Raise(expr) ELSE
    LET equals == advance_if(expr.P, {"Equal"}) IN
    IF ~equals.some THEN Ok(expr.val, expr.P) ELSE
    LET value == assignment(equals.P) IN
    IF ~value.ok THEN Raise(value)
    ELSE IF expr.val.node = "Variable"
    THEN Ok(ExprAssignment(expr.val.name, value.val), value.P)
    ELSE IF expr.val.node = "Get"
    THEN Ok(ExprSet(expr.val.object, expr.val.name, value.val), value.P)
    ELSE Ok(value.val,
            [parse_error(value.P, equals.token, "Invalid assignment target.")
                EXCEPT !.stumbled = TRUE])

expression(P) == assignment(P)

expression_statement(P) ==
    LET expr == Rule("expression", P, 0) IN
    IF ~expr.ok THEN Raise(expr) ELSE
    LET semi == expect(expr.P, "Semicolon", "Expect ';' after expression.") IN
    IF ~semi.ok THEN Raise(semi) ELSE Ok(StmtExpression(expr.val), semi.P)

while_statement(P) ==
    LET open == expect(P, "LeftParen", "Expect '(' after 'while'.") IN
    IF ~open.ok THEN Raise(open) ELSE
    LET condition == Rule("expression", open.P, 0) IN
    IF ~condition.ok THEN Raise(condition) ELSE
    LET close == expect(condition.P, "RightParen",
                        "Expect ')' after condition.") IN
    IF ~close.ok THEN Raise(close) ELSE
    LET body == Rule("statement", close.P, 0) IN
    IF ~body.ok THEN Raise(body)
    ELSE Ok(StmtWhile(condition.val, body.val), body.P)

return_statement(P, keyword) ==
    LET value == IF ~ParseCheck(P, "Semicolon") THEN Rule("expression", P, 0)
                 ELSE Ok(None, P) IN
    IF ~value.ok THEN Raise(value) ELSE
    LET semi == expect(value.P, "Semicolon",
                       "Expect ';' after return value.") IN
    IF ~semi.ok THEN Raise(semi)
    ELSE Ok(StmtReturn(keyword, value.val), semi.P)

print_statement(P) ==
    LET value == Rule("expression", P, 0) IN
    IF ~value.ok THEN Raise(value) ELSE
    LET semi == expect(value.P, "Semicolon", "Expect ';' after value.") IN
    IF ~semi.ok THEN Raise(semi) ELSE Ok(StmtPrint(value.val), semi.P)

BlockLoop(P, statements) ==
    IF ~ParseCheck(P, "RightBrace") /\ ~ParseIsAtEnd(P) /\ ~P.panicked THEN
        LET d == Rule("declaration", P, 0) IN
        BlockLoop(d.P, IF d.some THEN Append(statements, d.val)
                       ELSE statements)
    ELSE [statements |-> statements, P |-> P]

block(P) ==
    LET body == BlockLoop(P, <<>>)
        close == expect(body.P, "RightBrace", "Expect '}' after block.")
    IN  IF ~close.ok THEN Raise(close) ELSE Ok(body.statements, close.P)

variable_declaration(P) ==
    LET name == expect_identifier(P, "Expect variable name.") IN
    IF ~name.ok THEN Raise(name) ELSE
    LET equals == advance_if(name.P, {"Equal"})
        initializer == IF equals.some THEN Rule("expression", equals.P, 0)
                       ELSE Ok(None, name.P)
    IN  IF ~initializer.ok THEN Raise(initializer) ELSE
    LET semi == expect(initializer.P, "Semicolon",
                       "Expect ';' after variable declaration.") IN
    IF ~semi.ok THEN Raise(semi)
    ELSE Ok(StmtVar(name.val, initializer.val), semi.P)

\* for_statement, the desugaring: the body and the increment in a block,
\* in a while loop, in a block after the initializer.
ForDesugar(initializer, condition, increment, body) ==
    LET stepped == IF IsSome(increment)
                   THEN StmtBlock(<<body, StmtExpression(increment)>>)
                   ELSE body
        looped == StmtWhile(IF IsSome(condition) THEN condition
                            ELSE ExprLiteral(ObjBoolean(TRUE)), stepped)
    IN  IF IsSome(initializer) THEN StmtBlock(<<initializer, looped>>)
        ELSE looped

\* for_statement, from the increment clause.
ForIncrement(P, initializer, condition) ==
    LET increment == IF ParseCheck(P, "RightParen") THEN Ok(None, P)
                     ELSE Rule("expression", P, 0) IN
    IF ~increment.ok THEN Raise(increment) ELSE
    LET close == expect(increment.P, "RightParen",
                        "Expect ')' after for clauses.") IN
    IF ~close.ok THEN Raise(close) ELSE
    LET body == Rule("statement", close.P, 0) IN
    IF ~body.ok THEN Raise(body)
    ELSE Ok(ForDesugar(initializer, condition, increment.val, body.val),
            body.P)

\* for_statement, from the condition clause.
ForCondition(P, initializer) ==
    LET condition == IF ParseCheck(P, "Semicolon") THEN Ok(None, P)
                     ELSE Rule("expression", P, 0) IN
    IF ~condition.ok THEN Raise(condition) ELSE
    LET semi == expect(condition.P, "Semicolon",
                       "Expect ';' after loop condition.") IN
    IF ~semi.ok THEN Raise(semi)
    ELSE ForIncrement(semi.P, initializer, condition.val)

\* for_statement, the initializer clause.
ForInitializer(P) ==
    IF ParseCheck(P, "Semicolon") THEN Ok(None, ParseAdvance(P))
    ELSE IF ParseCheck(P, "Var") THEN variable_declaration(ParseAdvance(P))
    ELSE expression_statement(P)

for_statement(P) ==
    LET open == expect(P, "LeftParen", "Expect '(' after 'for'.") IN
    IF ~open.ok THEN Raise(open) ELSE
    LET initializer == ForInitializer(open.P) IN
    IF ~initializer.ok THEN Raise(initializer)
    ELSE ForCondition(initializer.P, initializer.val)

if_statement(P) ==
    LET open == expect(P, "LeftParen", "Expect '(' after 'if'.") IN
    IF ~open.ok THEN Raise(open) ELSE
    LET condition == Rule("expression", open.P, 0) IN
    IF ~condition.ok THEN Raise(condition) ELSE
    LET close == expect(condition.P, "RightParen",
                        "Expect ')' after condition.") IN
    IF ~close.ok THEN Raise(close) ELSE
    LET then_branch == Rule("statement", close.P, 0) IN
    IF ~then_branch.ok THEN Raise(then_branch) ELSE
    LET else0 == advance_if(then_branch.P, {"Else"}) IN
    IF ~else0.some
    THEN Ok(StmtIf(condition.val, then_branch.val, None), then_branch.P)
    ELSE
    LET else_branch == Rule("statement", else0.P, 0) IN
    IF ~else_branch.ok THEN Raise(else_branch)
    ELSE Ok(StmtIf(condition.val, then_branch.val, else_branch.val),
            else_branch.P)

statement(P) ==
    LET t == advance_if(P, {"For", "If", "LeftBrace", "Print", "Return",
                            "While"})
        kind == t.token.token_type.kind
    IN  IF ~t.some THEN expression_statement(P)
        ELSE IF kind = "For" THEN for_statement(t.P)
        ELSE IF kind = "If" THEN if_statement(t.P)
        ELSE IF kind = "LeftBrace" THEN
            LET body == Rule("block", t.P, 0) IN
            IF ~body.ok THEN Raise(body) ELSE Ok(StmtBlock(body.val), body.P)
        ELSE IF kind = "Print" THEN print_statement(t.P)
        ELSE IF kind = "Return" THEN return_statement(t.P, t.token)
        ELSE while_statement(t.P)

\* Parser::parameters, one turn of the while loop: r is the list so far and
\* the parser, or the error; open tells that the loop has not ended.
ParametersStep(S) ==
    LET comma == advance_if(S.r.P, {"Comma"}) IN
    IF ~comma.some THEN [S EXCEPT !.open = FALSE] ELSE
    LET report == ~S.too_many /\ Len(S.r.val.parameters) >= MaxArity
        Q == IF report
             THEN [parse_error(comma.P, ParsePeek(comma.P),
                               "Can't have more than 255 parameters.")
                     EXCEPT !.stumbled = TRUE]
             ELSE comma.P
        parameter == expect_identifier(Q, "Expect parameter name.")
    IN  IF ~parameter.ok
        THEN [r |-> Raise(parameter), too_many |-> S.too_many,
              open |-> FALSE]
        ELSE [r |-> Ok([parameters |->
                           Append(S.r.val.parameters, parameter.val)],
                       parameter.P),
              too_many |-> S.too_many \/ report, open |-> TRUE]

\* Up to count turns of the loop, as two halves one after the other.
ParametersRun(S, count) ==
    IF ~S.open THEN S
    ELSE IF count <= 1 THEN ParametersStep(S)
    ELSE ParametersRun(ParametersRun(S, count \div 2), count - (count \div 2))

\* The turns of the loop until it ends, in runs of growing length.
ParametersGrow(S, count) ==
    IF ~S.open THEN S ELSE ParametersGrow(ParametersRun(S, count), 2 * count)

\* Parser::parameters, the while loop.
ParametersLoop(P, params, too_many) ==
    ParametersGrow([r |-> Ok([parameters |-> params], P),
                    too_many |-> too_many, open |-> TRUE], 1).r

parameters(P) ==
    LET list ==
            IF ParseCheck(P, "RightParen") THEN Ok([parameters |-> <<>>], P)
            ELSE LET first == expect_identifier(P, "Expect parameter name.")
                 IN  IF ~first.ok THEN Raise(first)
                     ELSE ParametersLoop(first.P, <<first.val>>, FALSE)
    IN  IF ~list.ok THEN Raise(list) ELSE
        LET close == expect(list.P, "RightParen",
                            "Expect ')' after parameters.") IN
        IF ~close.ok THEN Raise(close)
        ELSE Ok(list.val.parameters, close.P)

function(P, kind) ==
    LET name == expect_identifier(P, "Expect " \o kind \o " name.") IN
    IF ~name.ok THEN Raise(name) ELSE
    LET open == expect(name.P, "LeftParen",
                       "Expect '(' after " \o kind \o " name.") IN
    IF ~open.ok THEN Raise(open) ELSE
    LET params == parameters(open.P) IN
    IF ~params.ok THEN Raise(params) ELSE
    LET brace == expect(params.P, "LeftBrace",
                        "Expect '{' before " \o kind \o " body.") IN
    IF ~brace.ok THEN Raise(brace) ELSE
    LET body == Rule("block", brace.P, 0) IN
    IF ~body.ok THEN Raise(body)
    ELSE Ok(DefFunction(name.val, params.val, body.val), body.P)

ClassMethods(P, methods) ==
    IF ~ParseCheck(P, "RightBrace") /\ ~ParseIsAtEnd(P) THEN
        LET method == Rule("function", P, "method") IN
        IF ~method.ok THEN Raise(method)
        ELSE ClassMethods(method.P, Append(methods, method.val))
    ELSE Ok([methods |-> methods], P)

class_declaration(P) ==
    LET name == expect_identifier(P, "Expect class name.") IN
    IF ~name.ok THEN Raise(name) ELSE
    LET less == advance_if(name.P, {"Less"})
        parent == IF less.some
                  THEN expect_identifier(less.P, "Expect superclass name.")
                  ELSE Ok(None, name.P)
    IN  IF ~parent.ok THEN Raise(parent) ELSE
    LET open == expect(parent.P, "LeftBrace",
                       "Expect '{' before class body.") IN
    IF ~open.ok THEN Raise(open) ELSE
    LET methods == ClassMethods(open.P, <<>>) IN
    IF ~methods.ok THEN Raise(methods) ELSE
    LET close == expect(methods.P, "RightBrace",
                        "Expect '}' after class body.") IN
    IF ~close.ok THEN Raise(close)
    ELSE Ok(StmtClass(name.val, parent.val, methods.val.methods), close.P)

\* The parser's log: a declaration entered at a token.
Began(P) ==
    [P EXCEPT !.log = Append(@, [ev |-> "declaration", at |-> P.pos,
                                 to |-> P.pos])]

\* The parser's log: a recovery that began at one token and ended at another.
Recovered(from, P) ==
    [P EXCEPT !.log = Append(@, [ev |-> "synchronize", at |-> from,
                                 to |-> P.pos])]

\* Parser::declaration: Some(statement), or None after the diagnostic and
\* the recovery; P is the parser after the call.
declaration(P) ==
    LET t == advance_if(Began(P), {"Class", "Fun", "Var"})
        kind == t.token.token_type.kind
        result ==
            IF ~t.some THEN Rule("statement", Began(P), 0)
            ELSE IF kind = "Class" THEN class_declaration(t.P)
            ELSE IF kind = "Fun" THEN
                LET f == Rule("function", t.P, "function") IN
                IF ~f.ok THEN Raise(f) ELSE Ok(StmtFunction(f.val), f.P)
            ELSE variable_declaration(t.P)
    IN  IF result.ok THEN [some |-> TRUE, val |-> result.val, P |-> result.P]
        ELSE [some |-> FALSE, val |-> None,
              P |-> Recovered(result.P.pos,
                      synchronize(
                          parse_error([result.P EXCEPT !.stumbled = TRUE],
                                      result.token, result.message)))]

Rule(rule, P, arg) ==
    CASE rule = "declaration" -> declaration(P)
      [] rule = "statement" -> statement(P)
      [] rule = "expression" -> expression(P)
      [] rule = "block" -> block(P)
      [] rule = "function" -> function(P, arg)
      [] rule = "unary" -> unary(P)
      [] rule = "binary" -> binary(P, arg)

\* One iteration of the loop of Parser::parse.
Collect(d) ==
    IF d.some THEN [d.P EXCEPT !.statements = Append(@, d.val)] ELSE d.P

ParseStep(P) == Collect(Rule("declaration", P, 0))

RECURSIVE ParseLoop(_)
ParseLoop(P) ==
    IF ParseIsAtEnd(P) \/ P.panicked THEN P ELSE ParseLoop(ParseStep(P))

parse(P) == ParseLoop(P)

\* Parser::consume.
ParserConsume(P) ==
    IF ~P.stumbled
    THEN [ok |-> TRUE, error |-> "", statements |-> P.statements]
    ELSE [ok |-> FALSE, error |-> "Parse", statements |-> <<>>]

(***************************************************************************)
(* Resolver (resolver.rs).  A resolver is the record of the struct's       *)
(* fields and of the diagnostics written; a scope maps a name to whether   *)
(* it is defined.  panicked records a panic of Token::to_name.             *)
(***************************************************************************)
EmptyMap == [n \in {} |-> 0]

MapPut(m, k, v) == (k :> v) @@ m

ResolverNew ==
    [scopes |-> <<>>, resolutions |-> EmptyMap, function_scope |-> "Global",
     class_scope |-> "Global", stumbled |-> FALSE, diags |-> <<>>,
     panicked |-> FALSE]

\* Resolver::consume.
ResolverConsume(R) ==
    IF R.stumbled THEN [ok |-> FALSE, error |-> "Resolve", resolutions |-> EmptyMap]
    ELSE [ok |-> TRUE, error |-> "", resolutions |-> R.resolutions]

begin_scope(R) == [R EXCEPT !.scopes = Append(@, EmptyMap)]

end_scope(R) == [R EXCEPT !.scopes = SubSeq(@, 1, Len(@) - 1)]

add_to_scope(R, name, resolved) ==
    IF R.scopes # <<>>
    THEN [R EXCEPT !.scopes[Len(R.scopes)] = MapPut(@, name, resolved)]
    ELSE R

stumble(R, at, reason) ==
    [R EXCEPT !.diags = Append(@, [token |-> at, message |-> reason]),
              !.stumbled = TRUE]

\* A use of Token::to_name that panics leaves the resolver panicked.
NamePanic(R) == [R EXCEPT !.panicked = TRUE]

declare(R, name) ==
    IF R.scopes = <<>> THEN R
    ELSE IF to_name(name).panic THEN NamePanic(R)
    ELSE IF to_name(name).name \in DOMAIN R.scopes[Len(R.scopes)]
    THEN stumble(R, name, "Already a variable with this name in this scope.")
    ELSE add_to_scope(R, to_name(name).name, FALSE)

define(R, name) ==
    IF to_name(name).panic THEN NamePanic(R)
    ELSE add_to_scope(R, to_name(name).name, TRUE)

\* The depths (0 is the innermost scope) of the scopes that hold the name.
DepthsOf(R, name) ==
    {d \in 0 .. Len(R.scopes) - 1 : name \in DOMAIN R.scopes[Len(R.scopes) - d]}

Min(S) == CHOOSE m \in S : \A n \in S : m <= n

\* A resolve_local that looks at the innermost scope only.
ResolveLocalInnermost(R, token) ==
    IF to_name(token).panic THEN NamePanic(R)
    ELSE IF R.scopes # <<>>
            /\ to_name(token).name \in DOMAIN R.scopes[Len(R.scopes)]
         THEN [R EXCEPT !.resolutions = MapPut(@, to_name(token).id, 0)]
         ELSE R

resolve_local(R, token) ==
    IF to_name(token).panic THEN NamePanic(R)
    ELSE LET hits == DepthsOf(R, to_name(token).name) IN
         IF hits = {} THEN R
         ELSE [R EXCEPT !.resolutions =
                   MapPut(@, to_name(token).id, Min(hits))]

RECURSIVE resolve_statements(_, _), resolve_statement(_, _),
          resolve_expression(_, _), resolve_expressions(_, _),
          resolve_function(_, _, _), ResolveMethods(_, _),
          DeclareParameters(_, _)

DeclareParameters(R, params) ==
    IF params = <<>> \/ R.panicked THEN R
    ELSE DeclareParameters(define(declare(R, Head(params)), Head(params)),
                           Tail(params))

\* A function body left without the function context being restored.
ResolveFunctionKeeping(R, definition, function_scope) ==
    LET A == [begin_scope(R) EXCEPT !.function_scope = function_scope]
        B == DeclareParameters(A, definition.parameters)
        C == resolve_statements(B, definition.body)
    IN  end_scope(C)

resolve_function(R, definition, function_scope) ==
    LET enclosing_function == R.function_scope
        A == [begin_scope(R) EXCEPT !.function_scope = function_scope]
        B == DeclareParameters(A, definition.parameters)
        C == resolve_statements(B, definition.body)
    IN  [end_scope(C) EXCEPT !.function_scope = enclosing_function]

resolve_expressions(R, expressions) ==
    IF expressions = <<>> \/ R.panicked THEN R
    ELSE resolve_expressions(resolve_expression(R, Head(expressions)),
                             Tail(expressions))

\* A read reported whenever the innermost scope holds the name, defined or
\* not.
ResolveVariableDeclared(R, e) ==
    IF R.scopes = <<>> THEN R
    ELSE IF to_name(e.name).panic THEN NamePanic(R)
    ELSE LET scope == R.scopes[Len(R.scopes)]
             name == to_name(e.name).name
         IN  resolve_local(
                IF name \in DOMAIN scope
                THEN stumble(R, e.name,
                       "Can't read local variable in its own initializer.")
                ELSE R,
                e.name)

\* Resolver::visit_variable
ResolveVariable(R, e) ==
    IF R.scopes = <<>> THEN R
    ELSE IF to_name(e.name).panic THEN NamePanic(R)
    ELSE LET scope == R.scopes[Len(R.scopes)]
             name == to_name(e.name).name
         IN  resolve_local(
                IF name \in DOMAIN scope /\ scope[name] = FALSE
                THEN stumble(R, e.name,
                       "Can't read local variable in its own initializer.")
                ELSE R,
                e.name)

\* impl expr::Visitor<()> for Resolver
resolve_expression(R, e) ==
    CASE e.node = "Assignment" ->
            resolve_local(resolve_expression(R, e.value), e.name)
      [] e.node \in {"Binary", "Logical"} ->
            resolve_expression(resolve_expression(R, e.left), e.right)
      [] e.node = "Call" ->
            resolve_expressions(resolve_expression(R, e.callee), e.arguments)
      [] e.node = "Get" -> resolve_expression(R, e.object)
      [] e.node = "Grouping" -> resolve_expression(R, e.expression)
      [] e.node = "Literal" -> R
      [] e.node = "Set" ->
            resolve_expression(resolve_expression(R, e.value), e.object)
      [] e.node = "Super" ->
            resolve_local(
                IF R.class_scope = "Global"
                THEN stumble(R, e.keyword,
                             "Can't use 'super' outside of a class.")
                ELSE IF R.class_scope = "Class"
                THEN stumble(R, e.keyword,
                         "Can't use 'super' in a class with no superclass.")
                ELSE R,
                e.keyword)
      [] e.node = "This" ->
            resolve_local(
                IF R.class_scope = "Global"
                THEN stumble(R, e.keyword,
                             "Can't use 'this' outside of a class.")
                ELSE R,
                e.keyword)
      [] e.node = "Unary" -> resolve_expression(R, e.right)
      [] e.node = "Variable" -> ResolveVariable(R, e)

ResolveMethods(R, methods) ==
    IF methods = <<>> \/ R.panicked THEN R
    ELSE LET method == Head(methods)
             scope == IF to_name(method.name).name = "init"
                      THEN "Initializer" ELSE "Method"
         IN  ResolveMethods(resolve_function(R, method, scope), Tail(methods))

\* Resolver::visit_class
ResolveClass(R, s) ==
    LET enclosing_class == R.class_scope
        A == define(declare([R EXCEPT !.class_scope = "Class"], s.name), s.name)
        B == IF IsSome(s.parent)
             THEN resolve_local(
                    IF to_name(s.name).name = to_name(s.parent).name
                    THEN stumble([A EXCEPT !.class_scope = "Subclass"],
                                 s.parent, "A class can't inherit from itself.")
                    ELSE [A EXCEPT !.class_scope = "Subclass"],
                    s.parent)
             ELSE A
        C == IF IsSome(s.parent)
             THEN add_to_scope(begin_scope(B), "super", TRUE) ELSE B
        D == add_to_scope(begin_scope(C), "this", TRUE)
        E == ResolveMethods(D, s.methods)
        F == end_scope(E)
        G == IF IsSome(s.parent) THEN end_scope(F) ELSE F
    IN  [G EXCEPT !.class_scope = enclosing_class]

\* Resolver::visit_return
ResolveReturn(R, s) ==
    LET A == IF R.function_scope = "Global"
             THEN stumble(R, s.keyword, "Can't return from top-level code.")
             ELSE R
    IN  IF IsSome(s.value)
        THEN resolve_expression(
                IF A.function_scope = "Initializer"
                THEN stumble(A, s.keyword,
                             "Can't return a value from an initializer.")
                ELSE A,
                s.value)
        ELSE A

\* impl stmt::Visitor<()> for Resolver
resolve_statement(R, s) ==
    CASE s.node = "Block" ->
            end_scope(resolve_statements(begin_scope(R), s.statements))
      [] s.node = "Class" -> ResolveClass(R, s)
      [] s.node \in {"Expression", "Print"} ->
            resolve_expression(R, s.expression)
      [] s.node = "Function" ->
            resolve_function(
                define(declare(R, s.definition.name), s.definition.name),
                s.definition, "Function")
      [] s.node = "If" ->
            LET A == resolve_statement(resolve_expression(R, s.condition),
                                       s.then_branch)
            IN  IF IsSome(s.else_branch)
                THEN resolve_statement(A, s.else_branch) ELSE A
      [] s.node = "Return" -> ResolveReturn(R, s)
      [] s.node = "Var" ->
            LET A == declare(R, s.name)
                B == IF IsSome(s.initializer)
                     THEN resolve_expression(A, s.initializer) ELSE A
            IN  define(B, s.name)
      [] s.node = "While" ->
            resolve_statement(resolve_expression(R, s.condition), s.body)

resolve_statements(R, statements) ==
    IF statements = <<>> \/ R.panicked THEN R
    ELSE resolve_statements(resolve_statement(R, Head(statements)),
                            Tail(statements))

(***************************************************************************)
(* Values at run time (object.rs, callable.rs, instance.rs).  The heap of  *)
(* the interpreter holds the scopes (Rc<RefCell<Bindings>>) and the field  *)
(* maps of the instances (Rc<RefCell<Fields>>); a reference is an index    *)
(* into the heap, and 0 is the absent enclosing scope.                     *)
(***************************************************************************)
ObjCallable(callable) == [tag |-> "Callable", callable |-> callable]

\* Instance { class, fields }
ObjInstance(class, fields) ==
    [tag |-> "Instance", class |-> class, fields |-> fields]

\* Function::new
FunctionNew(definition, environment, is_initializer) ==
    [variant |-> "Function", definition |-> definition,
     closure |-> environment, is_initializer |-> is_initializer]

\* Class::new
ClassNew(name, parent, methods) ==
    [variant |-> "Class", name |-> name, parent |-> parent,
     methods |-> methods]

NativeClock == [variant |-> "Native", native |-> "Clock"]

NoClass == [variant |-> "None"]

\* A lookup that asks the parent before the class's own table.
RECURSIVE FindParentFirst(_, _)
FindParentFirst(class, name) ==
    IF class.parent.variant = "Class" /\ FindParentFirst(class.parent, name).some
    THEN FindParentFirst(class.parent, name)
    ELSE IF name \in DOMAIN class.methods
    THEN [some |-> TRUE, function |-> class.methods[name]]
    ELSE [some |-> FALSE, function |-> NoClass]

\* Class::find_method: the class's own table first, then the parent's.
RECURSIVE find_method(_, _)
find_method(class, name) ==
    IF name \in DOMAIN class.methods
    THEN [some |-> TRUE, function |-> class.methods[name]]
    ELSE IF class.parent.variant = "Class"
    THEN find_method(class.parent, name)
    ELSE [some |-> FALSE, function |-> NoClass]

\* Function::arity (a panic past 255 parameters).
FunctionArity(fn) == Len(fn.definition.parameters)

\* Class::arity
ClassArity(class) ==
    IF find_method(class, "init").some
    THEN FunctionArity(find_method(class, "init").function) ELSE 0

\* Callable::arity
CallableArity(callable) ==
    CASE callable.variant = "Class" -> ClassArity(callable)
      [] callable.variant = "Native" -> 0
      [] callable.variant = "Function" -> FunctionArity(callable)

\* impl PartialEq for Class: the name tokens' types are equal.
ClassEq(a, b) == a.name.token_type = b.name.token_type

\* impl PartialEq for Function: the name tokens' types are equal and the
\* closures are the same scope.
FunctionEq(a, b) ==
    /\ a.definition.name.token_type = b.definition.name.token_type
    /\ a.closure = b.closure

\* #[derive(PartialEq)] for Callable
CallableEq(a, b) ==
    /\ a.variant = b.variant
    /\ CASE a.variant = "Class" -> ClassEq(a, b)
         [] a.variant = "Function" -> FunctionEq(a, b)
         [] a.variant = "Native" -> a.native = b.native

\* #[derive(PartialEq)] for Object and for Instance: an instance is
\* compared by its class and by the contents of its field map.
RECURSIVE ObjectEq(_, _, _)
ObjectEq(I, a, b) ==
    /\ a.tag = b.tag
    /\ CASE a.tag = "Nil" -> TRUE
         [] a.tag = "Boolean" -> a.b = b.b
         [] a.tag = "Number" -> a.n = b.n
         [] a.tag = "String" -> a.s = b.s
         [] a.tag = "Callable" -> CallableEq(a.callable, b.callable)
         [] a.tag = "Instance" ->
                /\ ClassEq(a.class, b.class)
                /\ DOMAIN I.fields[a.fields] = DOMAIN I.fields[b.fields]
                /\ \A k \in DOMAIN I.fields[a.fields] :
                       ObjectEq(I, I.fields[a.fields][k], I.fields[b.fields][k])

\* interpreter.rs is_truthy
is_truthy(operand) ==
    CASE operand.tag = "Nil" -> FALSE
      [] operand.tag = "Boolean" -> operand.b
      [] OTHER -> TRUE

(***************************************************************************)
(* Display (object.rs, callable.rs, instance.rs): the text print writes.   *)
(***************************************************************************)
DigitChars == <<"0", "1", "2", "3", "4", "5", "6", "7", "8", "9">>

RECURSIVE NatToString(_)
NatToString(n) ==
    IF n < 10 THEN DigitChars[n + 1]
    ELSE NatToString(n \div 10) \o DigitChars[(n % 10) + 1]

\* The digits of the fraction r/den, for a den that divides a power of ten.
RECURSIVE FractionDigits(_, _)
FractionDigits(r, den) ==
    IF r = 0 THEN ""
    ELSE DigitChars[((r * 10) \div den) + 1]
         \o FractionDigits((r * 10) % den, den)

RECURSIVE OnlyTwosAndFives(_)
OnlyTwosAndFives(d) ==
    IF d = 1 THEN TRUE
    ELSE IF d % 2 = 0 THEN OnlyTwosAndFives(d \div 2)
    ELSE IF d % 5 = 0 THEN OnlyTwosAndFives(d \div 5)
    ELSE FALSE

\* An integral number prints without a fraction, a finite decimal with its
\* digits; any other quotient prints as num/den here.
NumberToString(n) ==
    LET sign == IF n.num < 0 THEN "-" ELSE ""
        a == Abs(n.num)
    IN  IF n.den = 1 THEN sign \o NatToString(a)
        ELSE IF OnlyTwosAndFives(n.den)
        THEN sign \o NatToString(a \div n.den) \o "."
             \o FractionDigits(a % n.den, n.den)
        ELSE sign \o NatToString(a) \o "/" \o NatToString(n.den)

CallableToString(callable) ==
    CASE callable.variant = "Class" -> to_name(callable.name).name
      [] callable.variant = "Function" ->
            "<fn " \o to_name(callable.definition.name).name \o ">"
      [] callable.variant = "Native" -> "<native fn>"

Display(object) ==
    CASE object.tag = "Nil" -> "nil"
      [] object.tag = "Boolean" -> IF object.b THEN "true" ELSE "false"
      [] object.tag = "Number" -> NumberToString(object.n)
      [] object.tag = "String" -> object.s
      [] object.tag = "Callable" -> CallableToString(object.callable)
      [] object.tag = "Instance" ->
            to_name(object.class.name).name \o " instance"

(***************************************************************************)
(* Environment (environment.rs).  I is the interpreter with its heap; a    *)
(* scope is [enclosing, values].                                           *)
(***************************************************************************)
\* environment::new_with_enclosing: the new scope is the last of the heap.
new_with_enclosing(I, enclosing) ==
    [I EXCEPT !.envs = Append(@, [enclosing |-> enclosing,
                                  values |-> EmptyMap])]

Newest(I) == Len(I.envs)

\* environment::define
EnvDefine(I, local, name, value) ==
    [I EXCEPT !.envs[local].values = MapPut(@, name, value)]

\* A lookup that asks the enclosing scope before the scope's own bindings.
RECURSIVE EnvGetOutermost(_, _, _)
EnvGetOutermost(I, local, name) ==
    IF I.envs[local].enclosing # 0
       /\ EnvGetOutermost(I, I.envs[local].enclosing, name).some
    THEN EnvGetOutermost(I, I.envs[local].enclosing, name)
    ELSE IF name \in DOMAIN I.envs[local].values
    THEN [some |-> TRUE, val |-> I.envs[local].values[name]]
    ELSE [some |-> FALSE, val |-> ObjNil]

\* environment::get
RECURSIVE EnvGet(_, _, _)
EnvGet(I, local, name) ==
    IF name \in DOMAIN I.envs[local].values
    THEN [some |-> TRUE, val |-> I.envs[local].values[name]]
    ELSE IF I.envs[local].enclosing # 0
    THEN EnvGet(I, I.envs[local].enclosing, name)
    ELSE [some |-> FALSE, val |-> ObjNil]

\* environment::assign
\* An assignment that binds the name in the outermost scope when no scope
\* of the chain binds it.
RECURSIVE EnvAssignCreating(_, _, _, _)
EnvAssignCreating(I, local, name, value) ==
    IF name \in DOMAIN I.envs[local].values \/ I.envs[local].enclosing = 0
    THEN [ok |-> TRUE, I |-> EnvDefine(I, local, name, value)]
    ELSE EnvAssignCreating(I, I.envs[local].enclosing, name, value)

RECURSIVE EnvAssign(_, _, _, _)
EnvAssign(I, local, name, value) ==
    IF name \in DOMAIN I.envs[local].values
    THEN [ok |-> TRUE, I |-> EnvDefine(I, local, name, value)]
    ELSE IF I.envs[local].enclosing # 0
    THEN EnvAssign(I, I.envs[local].enclosing, name, value)
    ELSE [ok |-> FALSE, I |-> I]

\* The scope `distance` enclosing links up from local; 0 when there is none.
RECURSIVE Ancestor(_, _, _)
Ancestor(I, local, distance) ==
    IF local = 0 \/ distance = 0 THEN local
    ELSE Ancestor(I, I.envs[local].enclosing, distance - 1)

\* environment::get_at: a missing scope or binding is a panic.
get_at(I, local, distance, name) ==
    LET scope == Ancestor(I, local, distance) IN
    IF scope # 0 /\ name \in DOMAIN I.envs[scope].values
    THEN [panic |-> FALSE, val |-> I.envs[scope].values[name]]
    ELSE [panic |-> TRUE, val |-> ObjNil]

\* environment::assign_at
assign_at(I, local, distance, name, value) ==
    LET scope == Ancestor(I, local, distance) IN
    IF scope # 0 /\ name \in DOMAIN I.envs[scope].values
    THEN [panic |-> FALSE, I |-> EnvDefine(I, scope, name, value)]
    ELSE [panic |-> TRUE, I |-> I]

(***************************************************************************)
(* Interpreter (interpreter.rs) and the calls of callable.rs.  An          *)
(* interpreter I is the record of the struct's fields (global, local,      *)
(* resolutions), of the heap (envs, fields), of the lines printed (output) *)
(* and of a log of what the calls did (trace).  An evaluation gives        *)
(* ROk(value, I) or RErr(unwind, I); a Rust panic is the unwind Panic,     *)
(* which nothing catches.                                                  *)
(***************************************************************************)
\* What the clock builtin reads.
ClockReading == ObjNumber(Rat(0, 1))

\* Interpreter::new
InterpreterNew(resolutions) ==
    [envs |-> << [enclosing |-> 0,
                  values |-> ("clock" :> ObjCallable(NativeClock))] >>,
     fields |-> <<>>, global |-> 1, local |-> 1,
     resolutions |-> resolutions, output |-> <<>>, diags |-> <<>>,
     trace |-> <<>>]

NoUnwind ==
    [kind |-> "None", token |-> PanicToken, message |-> "", object |-> ObjNil]

ROk(val, I) == [ok |-> TRUE, val |-> val, unwind |-> NoUnwind, I |-> I]

RErr(unwind, I) == [ok |-> FALSE, val |-> ObjNil, unwind |-> unwind, I |-> I]

\* Unwind::Error(Error { token, message })
UnwindError(token, message) ==
    [kind |-> "Error", token |-> token, message |-> message, object |-> ObjNil]

\* Unwind::Return(Token, Object)
UnwindReturn(token, object) ==
    [kind |-> "Return", token |-> token, message |-> "", object |-> object]

UnwindPanic(message) ==
    [kind |-> "Panic", token |-> PanicToken, message |-> message,
     object |-> ObjNil]

Log(I, event) == [I EXCEPT !.trace = Append(@, event)]

\* The record of a lookup at a recorded distance: whether the scope at that
\* distance from the local one exists and binds the name.
LogHop(I, token, bound) ==
    Log(I, [ev |-> "Hop", name |-> to_name(token).name,
            distance |-> I.resolutions[to_name(token).id],
            local |-> I.local, bound |-> bound])

\* Interpreter::look_up_variable
look_up_variable(I, token) ==
    IF to_name(token).panic
    THEN RErr(UnwindPanic("token is not an identifier"), I)
    ELSE IF to_name(token).id \in DOMAIN I.resolutions THEN
        LET found == get_at(I, I.local, I.resolutions[to_name(token).id],
                            to_name(token).name) IN
        IF found.panic THEN RErr(UnwindPanic("get_at"), LogHop(I, token, FALSE))
        ELSE ROk(found.val, LogHop(I, token, TRUE))
    ELSE
        LET found == EnvGet(I, I.global, to_name(token).name) IN
        IF found.some THEN ROk(found.val, I)
        ELSE RErr(UnwindError(token, "Undefined variable '"
                                \o to_name(token).name \o "'."), I)

\* Instance::get: a field, or else the method the class finds.
InstanceGet(I, instance, name) ==
    IF name \in DOMAIN I.fields[instance.fields]
    THEN [some |-> TRUE, val |-> I.fields[instance.fields][name]]
    ELSE IF find_method(instance.class, name).some
    THEN [some |-> TRUE,
          val |-> ObjCallable(find_method(instance.class, name).function)]
    ELSE [some |-> FALSE, val |-> ObjNil]

\* Instance::set
InstanceSet(I, instance, name, object) ==
    [I EXCEPT !.fields[instance.fields] = MapPut(@, name, object)]

\* Function::bind: a new scope, enclosed by the closure, that defines this.
FunctionBind(I, fn, instance) ==
    LET A == new_with_enclosing(I, fn.closure)
        B == EnvDefine(A, Newest(A), "this", instance)
    IN  [I |-> B,
         function |-> FunctionNew(fn.definition, Newest(A), fn.is_initializer)]

\* The is-initializer argument that Interpreter::visit_class gives to
\* Function::new for a method.
MethodIsInitializer(definition) == to_name(definition.name).name = "init"

RatAdd(a, b) == Rat(a.num * b.den + b.num * a.den, a.den * b.den)

RatSub(a, b) == Rat(a.num * b.den - b.num * a.den, a.den * b.den)

RatMul(a, b) == Rat(a.num * b.num, a.den * b.den)

RatDiv(a, b) == Rat(a.num * b.den, a.den * b.num)

RatLess(a, b) == a.num * b.den < b.num * a.den

BothNumbers(a, b) == a.tag = "Number" /\ b.tag = "Number"

\* Interpreter::visit_binary, once both operands are evaluated.
BinaryApply(I, left, operator, right) ==
    LET kind == operator.token_type.kind
        numbers == RErr(UnwindError(operator, "Operands must be numbers."), I)
    IN  CASE kind = "BangEqual" -> ROk(ObjBoolean(~ObjectEq(I, left, right)), I)
          [] kind = "EqualEqual" ->
                ROk(ObjBoolean(ObjectEq(I, left, right)),
                    Log(I, [ev |-> "Equal", left |-> left, right |-> right,
                            val |-> ObjectEq(I, left, right)]))
          [] kind = "Greater" ->
                IF BothNumbers(left, right)
                THEN ROk(ObjBoolean(RatLess(right.n, left.n)), I) ELSE numbers
          [] kind = "GreaterEqual" ->
                IF BothNumbers(left, right)
                THEN ROk(ObjBoolean(~RatLess(left.n, right.n)), I) ELSE numbers
          [] kind = "Less" ->
                IF BothNumbers(left, right)
                THEN ROk(ObjBoolean(RatLess(left.n, right.n)), I) ELSE numbers
          [] kind = "LessEqual" ->
                IF BothNumbers(left, right)
                THEN ROk(ObjBoolean(~RatLess(right.n, left.n)), I) ELSE numbers
          [] kind = "Minus" ->
                IF BothNumbers(left, right)
                THEN ROk(ObjNumber(RatSub(left.n, right.n)), I) ELSE numbers
          [] kind = "Plus" ->
                IF BothNumbers(left, right)
                THEN ROk(ObjNumber(RatAdd(left.n, right.n)), I)
                ELSE IF left.tag = "String" /\ right.tag = "String"
                THEN ROk(ObjString(left.s \o right.s), I)
                ELSE RErr(UnwindError(operator,
                        "Operands must be two numbers or two strings."), I)
          [] kind = "Slash" ->
                IF BothNumbers(left, right)
                THEN IF right.n.num # 0
                     THEN ROk(ObjNumber(RatDiv(left.n, right.n)), I)
                     ELSE RErr(UnwindError(operator, "Division by zero."), I)
                ELSE numbers
          [] kind = "Star" ->
                IF BothNumbers(left, right)
                THEN ROk(ObjNumber(RatMul(left.n, right.n)), I) ELSE numbers
          [] OTHER -> RErr(UnwindPanic("token is not a binary operator"), I)

\* The interpreter's functions call one another through Dispatch.
RECURSIVE Dispatch(_, _, _, _), ExecuteStatements(_, _),
          DefineParameters(_, _, _, _), EvaluateArguments(_, _, _),
          visit_while(_, _)

\* The loop of Interpreter::execute_block.
ExecuteStatements(I, statements) ==
    IF statements = <<>> THEN ROk(ObjNil, I)
    ELSE LET result == Dispatch("execute", I, Head(statements), 0) IN
         IF ~result.ok THEN result
         ELSE ExecuteStatements(result.I, Tail(statements))

\* A block that puts the scope back only when its statements succeed.
RestoreOnSuccess(result, old_local) ==
    IF result.ok THEN [result EXCEPT !.I.local = old_local] ELSE result

\* The log of a block: the scope on entry, the block's own scope, the scope
\* on exit and how the block ended.
LogBlock(entry, scope, result) ==
    [result EXCEPT !.I =
        Log(@, [ev |-> "Block", entry |-> entry, scope |-> scope,
                exit |-> result.I.local,
                how |-> IF result.ok THEN "Ok" ELSE result.unwind.kind])]

\* Interpreter::execute_block, the scope put back.
Restore(result, old_local) == [result EXCEPT !.I.local = old_local]

\* Interpreter::execute_block: the scope on entry is the scope on every
\* return.
execute_block(I, statements, new_local) ==
    LogBlock(I.local, new_local,
        Restore(ExecuteStatements([I EXCEPT !.local = new_local], statements),
                I.local))

\* The loop of Function::call that defines the parameters.
DefineParameters(I, local, params, arguments) ==
    IF params = <<>> THEN I
    ELSE DefineParameters(
            EnvDefine(I, local, to_name(Head(params)).name, Head(arguments)),
            local, Tail(params), Tail(arguments))

\* The scope of a call enclosed by the caller's scope (dynamic scoping).
FunctionScopeOfCaller(I, fn) == new_with_enclosing(I, I.local)

\* Function::call, the scope of a call: new, enclosed by the closure.
FunctionScope(I, fn) == new_with_enclosing(I, fn.closure)

\* A match that hands the body's unwind on whatever it is.
FunctionYieldThrough(fn, result) ==
    IF result.ok
    THEN IF fn.is_initializer
         THEN ROk(get_at(result.I, fn.closure, 0, "this").val, result.I)
         ELSE ROk(ObjNil, result.I)
    ELSE result

\* Function::call, the match on the result of the body.
FunctionYield(fn, result) ==
    LET this == get_at(result.I, fn.closure, 0, "this")
        yield_this == IF this.panic
                      THEN RErr(UnwindPanic("get_at"), result.I)
                      ELSE ROk(this.val, result.I)
    IN  IF result.ok
        THEN IF fn.is_initializer THEN yield_this
             ELSE ROk(ObjNil, result.I)
        ELSE IF result.unwind.kind = "Return"
        THEN IF fn.is_initializer THEN yield_this
             ELSE ROk(result.unwind.object, result.I)
        ELSE result

\* The log of a call of a function: what the body did and what the call
\* answered.
LogFunctionCall(fn, local, before, result, answer) ==
    [answer EXCEPT !.I =
        Log(@, [ev |-> "FunctionCall", function |-> fn, local |-> local,
                before |-> before,
                body |-> IF result.ok THEN "Ok" ELSE result.unwind.kind,
                unwind |-> result.unwind,
                ok |-> answer.ok, val |-> answer.val,
                answer |-> answer.unwind])]

\* Function::call, from the execution of the body.
FunctionBody(fn, local, before, result) ==
    LogFunctionCall(fn, local, before, result, FunctionYield(fn, result))

\* Function::call
FunctionCall(I, fn, arguments) ==
    IF Len(fn.definition.parameters) # Len(arguments)
    THEN RErr(UnwindPanic("zip destroys parameters or arguments"), I)
    ELSE FunctionBody(fn, Len(I.envs) + 1, Len(I.envs),
            execute_block(
                DefineParameters(FunctionScope(I, fn), Len(I.envs) + 1,
                                 fn.definition.parameters, arguments),
                fn.definition.body, Len(I.envs) + 1))

\* The log of a call of a class.
LogClassCall(class, instance, initializer, arguments, answer) ==
    [answer EXCEPT !.I =
        Log(@, [ev |-> "ClassCall", class |-> class, instance |-> instance,
                initializer |-> initializer, arguments |-> arguments,
                ok |-> answer.ok, val |-> answer.val,
                answer |-> answer.unwind])]

\* Class::call, the initializer bound to the instance and called.
ClassInitialize(bound, arguments) ==
    FunctionCall(bound.I, bound.function, arguments)

\* Class::call, from the new instance.
ClassConstruct(I, class, instance, arguments) ==
    LogClassCall(class, instance, find_method(class, "init").some, arguments,
        IF find_method(class, "init").some
        THEN ClassInitialize(
                FunctionBind(I, find_method(class, "init").function,
                             instance),
                arguments)
        ELSE ROk(instance, I))

\* Class::call handing out the first instance again instead of a new one.
ClassCallShared(I, class, arguments) ==
    ClassConstruct([I EXCEPT !.fields = IF @ = <<>> THEN <<EmptyMap>> ELSE @],
                   class, ObjInstance(class, 1), arguments)

\* Class::call
ClassCall(I, class, arguments) ==
    ClassConstruct([I EXCEPT !.fields = Append(@, EmptyMap)], class,
                   ObjInstance(class, Len(I.fields) + 1), arguments)

\* Callable::call
CallableCall(I, callable, arguments) ==
    CASE callable.variant = "Class" -> ClassCall(I, callable, arguments)
      [] callable.variant = "Function" -> FunctionCall(I, callable, arguments)
      [] callable.variant = "Native" -> ROk(ClockReading, I)

\* The loop of visit_call that evaluates the arguments from left to right.
EvaluateArguments(I, arguments, objects) ==
    IF arguments = <<>> THEN ROk([objects |-> objects], I)
    ELSE LET result == Dispatch("evaluate", I, Head(arguments), 0) IN
         IF ~result.ok THEN result
         ELSE EvaluateArguments(result.I, Tail(arguments),
                                Append(objects, result.val))

\* A call that checks the arity before it evaluates the arguments.
VisitCallArityFirst(I, e) ==
    LET callee == Dispatch("evaluate", I, e.callee, 0) IN
    IF ~callee.ok THEN callee
    ELSE IF callee.val.tag # "Callable"
    THEN RErr(UnwindError(e.paren, "Can only call functions and classes."),
              callee.I)
    ELSE IF Len(e.arguments) # CallableArity(callee.val.callable)
    THEN RErr(UnwindError(e.paren,
                "Expected "
                \o NatToString(CallableArity(callee.val.callable))
                \o " arguments but got " \o NatToString(Len(e.arguments))
                \o "."), callee.I)
    ELSE
    LET objects == EvaluateArguments(callee.I, e.arguments, <<>>) IN
    IF ~objects.ok THEN objects
    ELSE
    LET result == Dispatch("call", objects.I, callee.val.callable,
                           objects.val.objects) IN
    IF ~result.ok /\ result.unwind.kind = "Return"
    THEN ROk(result.unwind.object, result.I)
    ELSE result

\* Interpreter::visit_call
visit_call(I, e) ==
    LET callee == Dispatch("evaluate", I, e.callee, 0) IN
    IF ~callee.ok THEN callee
    ELSE IF callee.val.tag # "Callable"
    THEN RErr(UnwindError(e.paren, "Can only call functions and classes."),
              callee.I)
    ELSE
    LET objects == EvaluateArguments(callee.I, e.arguments, <<>>) IN
    IF ~objects.ok THEN objects
    ELSE IF Len(e.arguments) > MaxArity
    THEN RErr(UnwindPanic("more than 255 arguments"), objects.I)
    ELSE IF Len(e.arguments) # CallableArity(callee.val.callable)
    THEN RErr(UnwindError(e.paren,
                "Expected "
                \o NatToString(CallableArity(callee.val.callable))
                \o " arguments but got " \o NatToString(Len(e.arguments))
                \o "."), objects.I)
    ELSE
    LET result == Dispatch("call", objects.I, callee.val.callable,
                           objects.val.objects) IN
    IF ~result.ok /\ result.unwind.kind = "Return"
    THEN ROk(result.unwind.object, result.I)
    ELSE result

\* The `super` expression: the superclass at the recorded distance, this
\* one scope nearer, and the superclass's method bound to this.
visit_super(I, e) ==
    IF e.keyword.token_type.id \notin DOMAIN I.resolutions
    THEN RErr(UnwindPanic("get_at"), I) ELSE
    LET distance == I.resolutions[e.keyword.token_type.id]
        superclass == get_at(I, I.local, distance, "super")
        this == get_at(I, I.local, distance - 1, "this")
    IN  IF distance = 0 \/ superclass.panic \/ this.panic
        THEN RErr(UnwindPanic("get_at"), I)
        ELSE LET method == find_method(superclass.val.callable,
                                       to_name(e.method).name) IN
             IF ~method.some
             THEN RErr(UnwindError(e.method, "Undefined property '"
                           \o to_name(e.method).name \o "'."), I)
             ELSE LET bound == FunctionBind(I, method.function, this.val)
                  IN  ROk(ObjCallable(bound.function), bound.I)

\* Both operands of a logical operator evaluated whatever the left one is.
VisitLogicalEager(I, e) ==
    LET left == Dispatch("evaluate", I, e.left, 0) IN
    IF ~left.ok THEN left
    ELSE LET right == Dispatch("evaluate", left.I, e.right, 0) IN
         IF ~right.ok THEN right
         ELSE IF (e.operator.token_type.kind = "Or") = is_truthy(left.val)
         THEN ROk(left.val, right.I)
         ELSE right

\* Interpreter::visit_logical
visit_logical(I, e) ==
    LET left == Dispatch("evaluate", I, e.left, 0) IN
    IF ~left.ok THEN left
    ELSE IF e.operator.token_type.kind = "Or"
    THEN IF is_truthy(left.val) THEN left
         ELSE Dispatch("evaluate", left.I, e.right, 0)
    ELSE IF e.operator.token_type.kind = "And"
    THEN IF ~is_truthy(left.val) THEN left
         ELSE Dispatch("evaluate", left.I, e.right, 0)
    ELSE RErr(UnwindPanic("token is not a logical operator"), left.I)

\* impl expr::Visitor<Result<Object, Unwind>> for Interpreter
evaluate(I, e) ==
    CASE e.node = "Assignment" ->
            IF to_name(e.name).panic
            THEN RErr(UnwindPanic("token is not an identifier"), I) ELSE
            LET object == Dispatch("evaluate", I, e.value, 0) IN
            IF ~object.ok THEN object
            ELSE IF to_name(e.name).id \in DOMAIN object.I.resolutions THEN
                LET done == assign_at(object.I, object.I.local,
                                object.I.resolutions[to_name(e.name).id],
                                to_name(e.name).name, object.val) IN
                IF done.panic
                THEN RErr(UnwindPanic("assign_at"),
                          LogHop(object.I, e.name, FALSE))
                ELSE ROk(object.val, LogHop(done.I, e.name, TRUE))
            ELSE
                LET done == EnvAssign(object.I, object.I.global,
                                      to_name(e.name).name, object.val) IN
                IF done.ok THEN ROk(object.val, done.I)
                ELSE RErr(UnwindError(e.name, "Undefined variable '"
                              \o to_name(e.name).name \o "'."), object.I)
      [] e.node = "Binary" ->
            LET left == Dispatch("evaluate", I, e.left, 0) IN
            IF ~left.ok THEN left ELSE
            LET right == Dispatch("evaluate", left.I, e.right, 0) IN
            IF ~right.ok THEN right
            ELSE BinaryApply(right.I, left.val, e.operator, right.val)
      [] e.node = "Call" -> visit_call(I, e)
      [] e.node = "Get" ->
            LET object == Dispatch("evaluate", I, e.object, 0) IN
            IF ~object.ok THEN object
            ELSE IF object.val.tag = "Instance" THEN
                LET found == InstanceGet(object.I, object.val,
                                         to_name(e.name).name) IN
                IF found.some
                THEN ROk(found.val,
                         Log(object.I, [ev |-> "Get", instance |-> object.val,
                                        name |-> to_name(e.name).name,
                                        val |-> found.val]))
                ELSE RErr(UnwindError(e.name, "Undefined property '"
                              \o to_name(e.name).name \o "'."), object.I)
            ELSE RErr(UnwindError(e.name, "Only instances have properties."),
                      object.I)
      [] e.node = "Grouping" -> Dispatch("evaluate", I, e.expression, 0)
      [] e.node = "Literal" -> ROk(e.literal, I)
      [] e.node = "Logical" -> visit_logical(I, e)
      [] e.node = "Set" ->
            LET object == Dispatch("evaluate", I, e.object, 0) IN
            IF ~object.ok THEN object
            ELSE IF object.val.tag = "Instance" THEN
                LET value == Dispatch("evaluate", object.I, e.value, 0) IN
                IF ~value.ok THEN value
                ELSE ROk(value.val,
                         InstanceSet(value.I, object.val,
                                     to_name(e.name).name, value.val))
            ELSE RErr(UnwindError(e.name, "Only instances have fields."),
                      object.I)
      [] e.node = "Super" -> visit_super(I, e)
      [] e.node = "This" -> look_up_variable(I, e.keyword)
      [] e.node = "Unary" ->
            LET right == Dispatch("evaluate", I, e.right, 0) IN
            IF ~right.ok THEN right
            ELSE IF e.operator.token_type.kind = "Bang"
            THEN ROk(ObjBoolean(~is_truthy(right.val)), right.I)
            ELSE IF e.operator.token_type.kind = "Minus"
            THEN IF right.val.tag = "Number"
                 THEN ROk(ObjNumber(Rat(-right.val.n.num, right.val.n.den)),
                          right.I)
                 ELSE RErr(UnwindError(e.operator,
                                       "Operand must be a number."), right.I)
            ELSE RErr(UnwindPanic("token is not a unary operator"), right.I)
      [] e.node = "Variable" -> look_up_variable(I, e.name)

\* The superclass of a class statement: its variable must hold a class.
Superclass(I, s) ==
    IF ~IsSome(s.parent) THEN ROk(ObjCallable(NoClass), I)
    ELSE LET parent == look_up_variable(I, s.parent) IN
         IF ~parent.ok THEN parent
         ELSE IF parent.val.tag = "Callable"
                 /\ parent.val.callable.variant = "Class"
         THEN parent
         ELSE RErr(UnwindError(s.parent, "Superclass must be a class."), I)

\* The method table of visit_class: each method captures the scope `local`.
MethodTable(methods, local) ==
    [name \in {to_name(methods[i].name).name : i \in DOMAIN methods} |->
        LET last == CHOOSE i \in DOMAIN methods :
                        /\ to_name(methods[i].name).name = name
                        /\ \A j \in DOMAIN methods :
                              to_name(methods[j].name).name = name => j <= i
        IN  FunctionNew(methods[last], local,
                        MethodIsInitializer(methods[last]))]

\* Interpreter::visit_class
visit_class(I, s) ==
    LET parent == Superclass(I, s) IN
    IF ~parent.ok THEN parent ELSE
    LET name == to_name(s.name).name
        A == EnvDefine(parent.I, parent.I.local, name, ObjNil)
        B == IF IsSome(s.parent)
             THEN LET W == new_with_enclosing(A, A.local) IN
                  [EnvDefine(W, Newest(W), "super", parent.val)
                     EXCEPT !.local = Newest(W)]
             ELSE A
        class == ClassNew(s.name, parent.val.callable,
                          MethodTable(s.methods, B.local))
        C == [B EXCEPT !.local = A.local]
    IN  ROk(ObjNil, EnvDefine(C, C.local, name, ObjCallable(class)))

\* Interpreter::visit_while
visit_while(I, s) ==
    LET condition == Dispatch("evaluate", I, s.condition, 0) IN
    IF ~condition.ok THEN condition
    ELSE IF ~is_truthy(condition.val) THEN ROk(ObjNil, condition.I)
    ELSE LET body == Dispatch("execute", condition.I, s.body, 0) IN
         IF ~body.ok THEN body ELSE visit_while(body.I, s)

\* impl stmt::Visitor<Result<(), Unwind>> for Interpreter
execute(I, s) ==
    CASE s.node = "Block" ->
            LET A == new_with_enclosing(I, I.local) IN
            execute_block(A, s.statements, Newest(A))
      [] s.node = "Class" -> visit_class(I, s)
      [] s.node = "Expression" ->
            LET value == Dispatch("evaluate", I, s.expression, 0) IN
            IF ~value.ok THEN value ELSE ROk(ObjNil, value.I)
      [] s.node = "Function" ->
            LET object == FunctionNew(s.definition, I.local, FALSE) IN
            ROk(ObjNil,
                Log(EnvDefine(I, I.local, to_name(s.definition.name).name,
                              ObjCallable(object)),
                    [ev |-> "Function", function |-> object,
                     local |-> I.local]))
      [] s.node = "If" ->
            LET condition == Dispatch("evaluate", I, s.condition, 0) IN
            IF ~condition.ok THEN condition
            ELSE IF is_truthy(condition.val)
            THEN Dispatch("execute", condition.I, s.then_branch, 0)
            ELSE IF IsSome(s.else_branch)
            THEN Dispatch("execute", condition.I, s.else_branch, 0)
            ELSE ROk(ObjNil, condition.I)
      [] s.node = "Print" ->
            LET object == Dispatch("evaluate", I, s.expression, 0) IN
            IF ~object.ok THEN object
            ELSE ROk(ObjNil, [object.I EXCEPT
                                !.output = Append(@, Display(object.val))])
      [] s.node = "Return" ->
            IF IsSome(s.value)
            THEN LET object == Dispatch("evaluate", I, s.value, 0) IN
                 IF ~object.ok THEN object
                 ELSE RErr(UnwindReturn(s.keyword, object.val), object.I)
            ELSE RErr(UnwindReturn(s.keyword, ObjNil), I)
      [] s.node = "Var" ->
            LET object == IF IsSome(s.initializer)
                          THEN Dispatch("evaluate", I, s.initializer, 0)
                          ELSE ROk(ObjNil, I) IN
            IF ~object.ok THEN object
            ELSE ROk(ObjNil, EnvDefine(object.I, object.I.local,
                                       to_name(s.name).name, object.val))
      [] s.node = "While" -> visit_while(I, s)

Dispatch(op, I, a, b) ==
    CASE op = "evaluate" -> evaluate(I, a)
      [] op = "execute" -> execute(I, a)
      [] op = "call" -> CallableCall(I, a, b)

(***************************************************************************)
(* The program as a state machine: the steps of lox.rs.  A run is given    *)
(* its command line (argc), whether the file can be read, and the file's   *)
(* text, which is a prelude followed by some words of a menu.              *)
(***************************************************************************)
VARIABLES argc, readable, words, source, stdin, pc, scanner, parser,
          resolver, statements, interp, cursor, result, exit, stages,
          consumed, executed, failedAt, chain, found

vars == <<argc, readable, words, source, stdin, pc, scanner, parser,
          resolver, statements, interp, cursor, result, exit, stages,
          consumed, executed, failedAt, chain, found>>

ExitOk == 0

ExitUsage == 64

ExitDataErr == 65

ExitNoInput == 66

ExitSoftware == 70

RECURSIVE Flatten(_)
Flatten(seqs) ==
    IF seqs = <<>> THEN <<>> ELSE Head(seqs) \o Flatten(Tail(seqs))

\* Statements and fragments that end a run in each stage.
Words ==
    << <<"p", "r", "i", "n", "t", " ", "1", ";">>,
       <<"a", ";">>,
       <<"1", "=", "1", ";">>,
       <<"@">>,
       <<"\"">>,
       <<"r", "e", "t", "u", "r", "n", ";">>,
       <<")">> >>

\* Two counters made by two calls of one function.
CounterPrelude ==
    <<"f", "u", "n", " ", "m", "a", "k", "e", "(", ")", "{", "v", "a", "r",
      " ", "i", "=", "0", ";", "f", "u", "n", " ", "c", "o", "u", "n", "t",
      "(", ")", "{", "i", "=", "i", "+", "1", ";", "p", "r", "i", "n", "t",
      " ", "i", ";", "}", "r", "e", "t", "u", "r", "n", " ", "c", "o", "u",
      "n", "t", ";", "}", "v", "a", "r", " ", "c", "=", "m", "a", "k", "e",
      "(", ")", ";", "v", "a", "r", " ", "d", "=", "m", "a", "k", "e", "(",
      ")", ";">>

\* Calls of the two counters, and a global that has the local's name.
CounterWords ==
    << <<"c", "(", ")", ";">>,
       <<"d", "(", ")", ";">>,
       <<"v", "a", "r", " ", "i", "=", "7", ";">> >>

\* Classes with an initializer, an inherited one, none, a failing one and an
\* empty one.
InitPrelude ==
    <<"c", "l", "a", "s", "s", " ", "A", "{", "i", "n", "i", "t", "(", "p",
      ")", "{", "t", "h", "i", "s", ".", "f", "=", "p", ";", "r", "e", "t",
      "u", "r", "n", ";", "}", "}", "c", "l", "a", "s", "s", " ", "B", "<",
      "A", "{", "}", "c", "l", "a", "s", "s", " ", "C", "{", "}", "c", "l",
      "a", "s", "s", " ", "D", "{", "i", "n", "i", "t", "(", ")", "{", "a",
      ";", "}", "}", "c", "l", "a", "s", "s", " ", "E", "{", "i", "n", "i",
      "t", "(", ")", "{", "}", "}">>

\* Calls of the classes, and calls of an initializer read from an instance.
InitWords ==
    << <<"p", "r", "i", "n", "t", " ", "A", "(", "1", ")", ".", "f", ";">>,
       <<"p", "r", "i", "n", "t", " ", "B", "(", "2", ")", ".", "f", ";">>,
       <<"p", "r", "i", "n", "t", " ", "C", "(", ")", ";">>,
       <<"D", "(", ")", ";">>,
       <<"A", "(", ")", ";">>,
       <<"A", "(", "1", ")", ".", "i", "n", "i", "t", "(", "2", ")", ";">>,
       <<"E", "(", ")", ".", "i", "n", "i", "t", "(", ")", ";">> >>

\* Two instances of a class with two methods.
MethodPrelude ==
    <<"c", "l", "a", "s", "s", " ", "A", "{", "m", "(", ")", "{", "}", "n",
      "(", ")", "{", "}", "}", "v", "a", "r", " ", "x", "=", "A", "(", ")",
      ";", "v", "a", "r", " ", "y", "=", "A", "(", ")", ";">>

\* Comparisons of property accesses.
MethodWords ==
    << <<"p", "r", "i", "n", "t", " ", "x", ".", "m", "=", "=", "x", ".", "m", ";">>,
       <<"p", "r", "i", "n", "t", " ", "x", ".", "m", "=", "=", "y", ".", "m", ";">>,
       <<"p", "r", "i", "n", "t", " ", "x", ".", "m", "=", "=", "x", ".", "n", ";">>,
       <<"y", "=", "x", ";">> >>

\* The texts of at most `most` words of a menu.
Choices(menu, most) ==
    UNION {[1..n -> 1..Len(menu)] : n \in 0..most}

Text(prelude, menu, chosen) ==
    prelude \o Flatten([i \in 1..Len(chosen) |-> menu[chosen[i]]])

\* No method has been looked up.
NoLookup ==
    [class |-> NoClass, name |-> "", some |-> FALSE, function |-> NoClass]

\* The state before main: nothing has run.
Idle ==
    /\ pc = "start"
    /\ scanner = ScannerNew(<<>>)
    /\ parser = ParserNew(<<>>)
    /\ resolver = ResolverNew
    /\ statements = <<>>
    /\ interp = InterpreterNew(EmptyMap)
    /\ cursor = 1
    /\ result = "None"
    /\ exit = {}
    /\ stages = <<>>
    /\ consumed = <<>>
    /\ executed = <<>>
    /\ failedAt = 0
    /\ chain = NoClass
    /\ found = NoLookup

\* The command lines: too many arguments, a file that cannot be read, or a
\* file that holds one of the texts.
InitWith(prelude, menu, most) ==
    /\ Idle
    /\ stdin = <<>>
    /\ \/ argc = 2 /\ readable = FALSE /\ words = <<>> /\ source = <<>>
       \/ argc = 1 /\ readable = FALSE /\ words = <<>> /\ source = <<>>
       \/ /\ argc = 1
          /\ readable = TRUE
          /\ words \in Choices(menu, most)
          /\ source = Text(prelude, menu, words)

Inputs == <<argc, readable, words, source, stdin>>

Lookups == <<chain, found>>

\* A run that goes on to the next stage whatever consume returned.
RunTryIgnoring(stage, ok) ==
    CASE stage = "scan" -> [pc |-> "parse", result |-> "None"]
      [] stage = "parse" -> [pc |-> "resolve", result |-> "None"]
      [] stage = "resolve" -> [pc |-> "interpret", result |-> "None"]
      [] stage = "interpret" -> [pc |-> "run_done", result |-> "Ok"]

\* fn run, the `?` after a stage: the next stage, or the stage's error.
RunTry(stage, ok) ==
    IF ok
    THEN CASE stage = "scan" -> [pc |-> "parse", result |-> "None"]
           [] stage = "parse" -> [pc |-> "resolve", result |-> "None"]
           [] stage = "resolve" -> [pc |-> "interpret", result |-> "None"]
           [] stage = "interpret" -> [pc |-> "run_done", result |-> "Ok"]
    ELSE CASE stage = "scan" -> [pc |-> "run_done", result |-> "Scan"]
           [] stage = "parse" -> [pc |-> "run_done", result |-> "Parse"]
           [] stage = "resolve" -> [pc |-> "run_done", result |-> "Resolve"]
           [] stage = "interpret" ->
                [pc |-> "run_done", result |-> "Interpret"]

\* fn lox: the match on the number of arguments.
LoxMatch(n) ==
    IF n = 0 THEN [pc |-> "prompt", exit |-> {}]
    ELSE IF n = 1 THEN [pc |-> "run_file", exit |-> {}]
    ELSE [pc |-> "exit", exit |-> {ExitUsage}]

\* The match of run_file with one exit code for every error class.
RunFileMatchFlat(status) ==
    CASE status \in {"Scan", "Parse", "Resolve", "Interpret"} -> ExitDataErr
      [] status = "Ok" -> ExitOk

\* fn run_file: the match on the status of run.
RunFileMatch(status) ==
    CASE status \in {"Scan", "Parse", "Resolve"} -> ExitDataErr
      [] status = "Interpret" -> ExitSoftware
      [] status = "Ok" -> ExitOk

\* The loop of Interpreter::interpret going on after a runtime error.
InterpretMatchLenient(r) ==
    IF r.ok THEN [I |-> r.I, outcome |-> "Continue", unwind |-> "None"]
    ELSE IF r.unwind.kind = "Error"
    THEN [I |-> [r.I EXCEPT !.diags = Append(@, r.unwind.message)],
          outcome |-> "Continue", unwind |-> "Error"]
    ELSE [I |-> r.I, outcome |-> "Panic", unwind |-> r.unwind.kind]

\* One turn of the loop of Interpreter::interpret.
InterpretMatch(r) ==
    IF r.ok THEN [I |-> r.I, outcome |-> "Continue", unwind |-> "None"]
    ELSE IF r.unwind.kind = "Error"
    THEN [I |-> [r.I EXCEPT !.diags = Append(@, r.unwind.message)],
          outcome |-> "Interpret", unwind |-> "Error"]
    ELSE [I |-> Log(r.I, [ev |-> "Uncaught", kind |-> r.unwind.kind]),
          outcome |-> "Panic", unwind |-> r.unwind.kind]

InterpretStep(I, stmt) == InterpretMatch(Dispatch("execute", I, stmt, 0))

Lox ==
    /\ pc = "start"
    /\ pc' = LoxMatch(argc).pc
    /\ exit' = LoxMatch(argc).exit
    /\ UNCHANGED <<Inputs, Lookups, scanner, parser, resolver, statements,
                   interp, cursor, result, stages, consumed, executed,
                   failedAt>>

RunFile ==
    /\ pc = "run_file"
    /\ IF readable
       THEN /\ pc' = "scan"
            /\ scanner' = ScannerNew(source)
            /\ stages' = Append(stages, "scan")
            /\ exit' = exit
       ELSE /\ pc' = "exit"
            /\ exit' = {ExitNoInput}
            /\ UNCHANGED <<scanner, stages>>
    /\ UNCHANGED <<Inputs, Lookups, parser, resolver, statements, interp,
                   cursor, result, consumed, executed, failedAt>>

ScanToken ==
    /\ pc = "scan"
    /\ ~ScanIsAtEnd(scanner)
    /\ scanner' = ScanStep(scanner)
    /\ UNCHANGED <<Inputs, Lookups, pc, parser, resolver, statements, interp,
                   cursor, result, exit, stages, consumed, executed,
                   failedAt>>

ScanEnd ==
    /\ pc = "scan"
    /\ ScanIsAtEnd(scanner)
    /\ scanner' = ScanFinish(scanner)
    /\ LET tokens == ScannerConsume(scanner')
           next == RunTry("scan", tokens.ok)
       IN  /\ consumed' = Append(consumed, tokens.ok)
           /\ pc' = next.pc
           /\ result' = next.result
           /\ IF next.pc = "parse"
              THEN /\ parser' = ParserNew(tokens.tokens)
                   /\ stages' = Append(stages, "parse")
              ELSE UNCHANGED <<parser, stages>>
    /\ UNCHANGED <<Inputs, Lookups, resolver, statements, interp, cursor,
                   exit, executed, failedAt>>

ParseDeclaration ==
    /\ pc = "parse"
    /\ ~ParseIsAtEnd(parser)
    /\ parser' = ParseStep(parser)
    /\ UNCHANGED <<Inputs, Lookups, pc, scanner, resolver, statements,
                   interp, cursor, result, exit, stages, consumed, executed,
                   failedAt>>

ParseEnd ==
    /\ pc = "parse"
    /\ ParseIsAtEnd(parser)
    /\ LET parsed == ParserConsume(parser)
           next == RunTry("parse", parsed.ok)
       IN  /\ consumed' = Append(consumed, parsed.ok)
           /\ pc' = next.pc
           /\ result' = next.result
           /\ statements' = parsed.statements
           /\ IF next.pc = "resolve"
              THEN stages' = Append(stages, "resolve")
              ELSE UNCHANGED stages
    /\ UNCHANGED <<Inputs, Lookups, scanner, parser, resolver, interp,
                   cursor, exit, executed, failedAt>>

\* An interpreter that keeps the scopes of the run before.
RunInterpreterKept(resolutions) ==
    [interp EXCEPT !.resolutions = resolutions]

\* fn run: the interpreter of a run is a new one.
RunInterpreter(resolutions) == InterpreterNew(resolutions)

Resolve ==
    /\ pc = "resolve"
    /\ resolver' = resolve_statements(ResolverNew, statements)
    /\ IF resolver'.panicked
       THEN /\ pc' = "panic"
            /\ UNCHANGED <<result, consumed, interp, stages>>
       ELSE LET resolved == ResolverConsume(resolver')
                next == RunTry("resolve", resolved.ok)
            IN  /\ consumed' = Append(consumed, resolved.ok)
                /\ pc' = next.pc
                /\ result' = next.result
                /\ IF next.pc = "interpret"
                   THEN /\ interp' = RunInterpreter(resolved.resolutions)
                        /\ stages' = Append(stages, "interpret")
                   ELSE UNCHANGED <<interp, stages>>
    /\ cursor' = 1
    /\ UNCHANGED <<Inputs, Lookups, scanner, parser, statements, exit,
                   executed, failedAt>>

\* What a turn of the loop leaves behind.
InterpretTurn(step) ==
    /\ interp' = step.I
    /\ executed' = Append(executed, cursor)
    /\ failedAt' = IF failedAt = 0 /\ step.unwind = "Error" THEN cursor
                   ELSE failedAt
    /\ CASE step.outcome = "Continue" ->
              /\ cursor' = cursor + 1
              /\ UNCHANGED <<pc, result, consumed>>
         [] step.outcome = "Interpret" ->
              /\ pc' = RunTry("interpret", FALSE).pc
              /\ result' = RunTry("interpret", FALSE).result
              /\ consumed' = Append(consumed, FALSE)
              /\ UNCHANGED cursor
         [] step.outcome = "Panic" ->
              /\ pc' = "panic"
              /\ UNCHANGED <<cursor, result, consumed>>

InterpretStatement ==
    /\ pc = "interpret"
    /\ cursor <= Len(statements)
    /\ InterpretTurn(InterpretStep(interp, statements[cursor]))
    /\ UNCHANGED <<Inputs, Lookups, scanner, parser, resolver, statements,
                   exit, stages>>

InterpretEnd ==
    /\ pc = "interpret"
    /\ cursor > Len(statements)
    /\ pc' = RunTry("interpret", TRUE).pc
    /\ result' = RunTry("interpret", TRUE).result
    /\ consumed' = Append(consumed, TRUE)
    /\ UNCHANGED <<Inputs, Lookups, scanner, parser, resolver, statements,
                   interp, cursor, exit, stages, executed, failedAt>>

RunFileExit ==
    /\ pc = "run_done"
    /\ pc' = "exit"
    /\ exit' = {RunFileMatch(result)}
    /\ UNCHANGED <<Inputs, Lookups, scanner, parser, resolver, statements,
                   interp, cursor, result, stages, consumed, executed,
                   failedAt>>

\* str::trim: the text without the white space at its two ends.
WhiteSpace == {" ", "\t", "\n"}

RECURSIVE TrimStart(_)
TrimStart(text) ==
    IF text # <<>> /\ Head(text) \in WhiteSpace THEN TrimStart(Tail(text))
    ELSE text

RECURSIVE TrimEnd(_)
TrimEnd(text) ==
    IF text # <<>> /\ text[Len(text)] \in WhiteSpace
    THEN TrimEnd(SubSeq(text, 1, Len(text) - 1))
    ELSE text

Trim(text) == TrimEnd(TrimStart(text))

\* Stdin::read_line: the next line with its line feed, or nothing at the end
\* of the input.
ReadLine(input) ==
    IF input = <<>> THEN <<>> ELSE Append(Head(input), "\n")

\* fn run_prompt, one turn of the loop up to the call of run: a line is read
\* and trimmed; an empty one ends the loop, another one is run from a new
\* scanner.
RunPrompt ==
    /\ pc = "prompt"
    /\ stdin' = IF stdin = <<>> THEN stdin ELSE Tail(stdin)
    /\ LET line == Trim(ReadLine(stdin)) IN
       IF line = <<>>
       THEN /\ pc' = "exit"
            /\ exit' = {ExitOk}
            /\ UNCHANGED <<source, scanner, stages, result>>
       ELSE /\ pc' = "scan"
            /\ source' = line
            /\ scanner' = ScannerNew(line)
            /\ stages' = Append(stages, "scan")
            /\ result' = "None"
            /\ exit' = exit
    /\ UNCHANGED <<argc, readable, words, Lookups, parser, resolver,
                   statements, interp, cursor, consumed, executed, failedAt>>

\* fn run_prompt, the end of a turn: the result of run is dropped.
RunAbsorb ==
    /\ pc = "run_done"
    /\ pc' = "prompt"
    /\ UNCHANGED <<Inputs, Lookups, scanner, parser, resolver, statements,
                   interp, cursor, result, exit, stages, consumed, executed,
                   failedAt>>

Next ==
    \/ Lox
    \/ RunFile
    \/ ScanToken
    \/ ScanEnd
    \/ ParseDeclaration
    \/ ParseEnd
    \/ Resolve
    \/ InterpretStatement
    \/ InterpretEnd
    \/ RunFileExit

Init == InitWith(<<>>, Words, MaxWords)

Spec == Init /\ [][Next]_vars

InitCounters == InitWith(CounterPrelude, CounterWords, MaxWords)

SpecCounters == InitCounters /\ [][Next]_vars

InitInitializers == InitWith(InitPrelude, InitWords, MaxCalls)

SpecInitializers == InitInitializers /\ [][Next]_vars

InitMethods == InitWith(MethodPrelude, MethodWords, MaxWords)

SpecMethods == InitMethods /\ [][Next]_vars

\* Two instances of a class without methods.
EqualityPrelude ==
    <<"c", "l", "a", "s", "s", " ", "A", "{", "}", "v", "a", "r", " ", "x",
      "=", "A", "(", ")", ";", "v", "a", "r", " ", "y", "=", "A", "(", ")",
      ";">>

\* Comparisons of values of the same and of different tags.
EqualityWords ==
    << <<"p", "r", "i", "n", "t", " ", "x", "=", "=", "x", ";">>,
       <<"p", "r", "i", "n", "t", " ", "x", "=", "=", "y", ";">>,
       <<"p", "r", "i", "n", "t", " ", "x", "=", "=", "n", "i", "l", ";">>,
       <<"p", "r", "i", "n", "t", " ", "n", "i", "l", "=", "=", "n", "i", "l",
         ";">>,
       <<"p", "r", "i", "n", "t", " ", "A", "=", "=", "\"", "A", "\"", ";">>,
       <<"x", ".", "f", "=", "1", ";">> >>

InitEquality == InitWith(EqualityPrelude, EqualityWords, MaxWords)

SpecEquality == InitEquality /\ [][Next]_vars

\* A truthy and a falsy operand, each of which prints when it is evaluated.
LogicalPrelude ==
    <<"f", "u", "n", " ", "t", "(", ")", "{", "p", "r", "i", "n", "t", " ",
      "1", ";", "r", "e", "t", "u", "r", "n", " ", "7", ";", "}", "f", "u",
      "n", " ", "f", "(", ")", "{", "p", "r", "i", "n", "t", " ", "0", ";",
      "r", "e", "t", "u", "r", "n", " ", "n", "i", "l", ";", "}">>

\* The two operators with the operands in both orders.
LogicalWords ==
    << <<"p", "r", "i", "n", "t", " ", "t", "(", ")", " ", "o", "r", " ", "f",
      "(", ")", ";">>,
       <<"p", "r", "i", "n", "t", " ", "f", "(", ")", " ", "o", "r", " ", "t",
      "(", ")", ";">>,
       <<"p", "r", "i", "n", "t", " ", "t", "(", ")", " ", "a", "n", "d", " ",
      "f", "(", ")", ";">>,
       <<"p", "r", "i", "n", "t", " ", "f", "(", ")", " ", "a", "n", "d", " ",
      "t", "(", ")", ";">> >>

InitLogical == InitWith(LogicalPrelude, LogicalWords, MaxWords)

SpecLogical == InitLogical /\ [][Next]_vars

\* A function that prints its argument, a function of two parameters and a
\* variable that holds a number.
CallPrelude ==
    <<"f", "u", "n", " ", "p", "(", "a", ")", "{", "p", "r", "i", "n", "t",
      " ", "a", ";", "r", "e", "t", "u", "r", "n", " ", "a", ";", "}", "f",
      "u", "n", " ", "g", "(", "a", ",", "b", ")", "{", "p", "r", "i", "n",
      "t", " ", "9", ";", "}", "v", "a", "r", " ", "n", "=", "1", ";">>

\* Calls with the right number of arguments, too few, too many, and a call of
\* the number.
CallWords ==
    << <<"g", "(", "p", "(", "1", ")", ",", "p", "(", "2", ")", ")", ";">>,
       <<"g", "(", "p", "(", "1", ")", ")", ";">>,
       <<"n", "(", "p", "(", "1", ")", ")", ";">>,
       <<"g", "(", "p", "(", "1", ")", ",", "p", "(", "2", ")", ",", "p",
         "(", "3", ")", ")", ";">> >>

InitCall == InitWith(CallPrelude, CallWords, MaxWords)

SpecCall == InitCall /\ [][Next]_vars

\* No declarations come before the words.
ReadsPrelude ==
    <<>>

\* Reads of a variable in its own initializer in a block, at top level and in
\* a nested block, and reads of a defined variable.
ReadsWords ==
    << <<"{", "v", "a", "r", " ", "a", "=", "a", ";", "}">>,
       <<"{", "v", "a", "r", " ", "a", "=", "1", ";", "p", "r", "i", "n",
         "t", " ", "a", ";", "}">>,
       <<"v", "a", "r", " ", "a", "=", "a", ";">>,
       <<"{", "v", "a", "r", " ", "a", "=", "1", ";", "{", "v", "a", "r",
         " ", "b", "=", "a", ";", "}", "}">>,
       <<"{", "v", "a", "r", " ", "a", "=", "1", ";", "{", "v", "a", "r",
         " ", "a", "=", "a", ";", "}", "}">> >>

InitReads == InitWith(ReadsPrelude, ReadsWords, MaxWords)

SpecReads == InitReads /\ [][Next]_vars

\* No declarations come before the words.
ReturnsPrelude ==
    <<>>

\* Return statements at top level, in a function, in a method, in an
\* initializer and in a function nested in one, with and without a value.
ReturnsWords ==
    << <<"r", "e", "t", "u", "r", "n", ";">>,
       <<"f", "u", "n", " ", "f", "(", ")", "{", "r", "e", "t", "u", "r",
         "n", " ", "1", ";", "}">>,
       <<"c", "l", "a", "s", "s", " ", "A", "{", "i", "n", "i", "t", "(",
         ")", "{", "r", "e", "t", "u", "r", "n", " ", "1", ";", "}", "}">>,
       <<"c", "l", "a", "s", "s", " ", "A", "{", "i", "n", "i", "t", "(",
         ")", "{", "r", "e", "t", "u", "r", "n", ";", "}", "}">>,
       <<"c", "l", "a", "s", "s", " ", "A", "{", "i", "n", "i", "t", "(",
         ")", "{", "f", "u", "n", " ", "g", "(", ")", "{", "r", "e", "t",
         "u", "r", "n", " ", "1", ";", "}", "}", "}">>,
       <<"c", "l", "a", "s", "s", " ", "A", "{", "m", "(", ")", "{", "r",
         "e", "t", "u", "r", "n", " ", "1", ";", "}", "}">>,
       <<"c", "l", "a", "s", "s", " ", "A", "{", "i", "n", "i", "t", "(",
         ")", "{", "f", "u", "n", " ", "g", "(", ")", "{", "}", "r", "e",
         "t", "u", "r", "n", " ", "1", ";", "}", "}">>,
       <<"f", "u", "n", " ", "f", "(", ")", "{", "}", "r", "e", "t", "u",
         "r", "n", " ", "1", ";">> >>

InitReturns == InitWith(ReturnsPrelude, ReturnsWords, MaxCalls)

SpecReturns == InitReturns /\ [][Next]_vars

\* A class to inherit from.
SupersPrelude ==
    <<"c", "l", "a", "s", "s", " ", "A", "{", "m", "(", ")", "{", "}", "}">>

\* A super expression outside a class, in a class without a parent and in a
\* class with one, and a class without any.
SupersWords ==
    << <<"s", "u", "p", "e", "r", ".", "m", "(", ")", ";">>,
       <<"c", "l", "a", "s", "s", " ", "C", "{", "m", "(", ")", "{", "s",
         "u", "p", "e", "r", ".", "m", "(", ")", ";", "}", "}">>,
       <<"c", "l", "a", "s", "s", " ", "B", "<", "A", "{", "m", "(", ")",
         "{", "s", "u", "p", "e", "r", ".", "m", "(", ")", ";", "}", "}">>,
       <<"c", "l", "a", "s", "s", " ", "D", "{", "}">> >>

InitSupers == InitWith(SupersPrelude, SupersWords, MaxCalls)

SpecSupers == InitSupers /\ [][Next]_vars

\* No declarations come before the words.
KeysPrelude ==
    <<>>

\* Statements with identifiers, this, super and other keywords.
KeysWords ==
    << <<"a", ";">>,
       <<"t", "h", "i", "s", ";">>,
       <<"s", "u", "p", "e", "r", ".", "m", ";">>,
       <<"v", "a", "r", " ", "b", ";">>,
       <<"p", "r", "i", "n", "t", " ", "a", ";">> >>

InitKeys == InitWith(KeysPrelude, KeysWords, MaxWords)

SpecKeys == InitKeys /\ [][Next]_vars

\* A class whose method reads this, and a global.
HopsPrelude ==
    <<"c", "l", "a", "s", "s", " ", "A", "{", "m", "(", ")", "{", "r", "e",
      "t", "u", "r", "n", " ", "t", "h", "i", "s", ";", "}", "}", "v", "a",
      "r", " ", "g", "=", "0", ";">>

\* Reads and assignments of locals, shadowed locals and globals, a method
\* call on an instance, and a super call.
HopsWords ==
    << <<"{", "v", "a", "r", " ", "a", "=", "1", ";", "{", "p", "r", "i",
         "n", "t", " ", "a", ";", "}", "}">>,
       <<"{", "v", "a", "r", " ", "a", "=", "1", ";", "{", "v", "a", "r",
         " ", "a", "=", "2", ";", "p", "r", "i", "n", "t", " ", "a", ";",
         "a", "=", "3", ";", "}", "}">>,
       <<"p", "r", "i", "n", "t", " ", "g", ";">>,
       <<"A", "(", ")", ".", "m", "(", ")", ";">>,
       <<"f", "u", "n", " ", "f", "(", "b", ")", "{", "{", "g", "=", "b",
         ";", "}", "}", "f", "(", "1", ")", ";">>,
       <<"c", "l", "a", "s", "s", " ", "B", "<", "A", "{", "m", "(", ")",
         "{", "s", "u", "p", "e", "r", ".", "m", "(", ")", ";", "}", "}">> >>

InitHops == InitWith(HopsPrelude, HopsWords, MaxWords)

SpecHops == InitHops /\ [][Next]_vars

\* No prelude: every name is declared by the words themselves.
UsesPrelude ==
    <<>>

\* Uses of a name declared earlier in an enclosing scope, declared later in
\* it, and declared nowhere.
UsesWords ==
    << <<"{", "v", "a", "r", " ", "a", "=", "1", ";", "p", "r", "i", "n",
         "t", " ", "a", ";", "}">>,
       <<"{", "p", "r", "i", "n", "t", " ", "a", ";", "v", "a", "r", " ",
         "a", "=", "1", ";", "}">>,
       <<"p", "r", "i", "n", "t", " ", "a", ";">>,
       <<"{", "v", "a", "r", " ", "b", "=", "1", ";", "{", "f", "u", "n",
         " ", "f", "(", ")", "{", "b", "=", "a", ";", "}", "}", "}">>,
       <<"{", "f", "u", "n", " ", "f", "(", ")", "{", "p", "r", "i", "n",
         "t", " ", "a", ";", "}", "v", "a", "r", " ", "a", "=", "1", ";",
         "}">>,
       <<"c", "l", "a", "s", "s", " ", "A", "{", "m", "(", ")", "{", "t",
         "h", "i", "s", ";", "}", "}">> >>

InitUses == InitWith(UsesPrelude, UsesWords, MaxWords)

SpecUses == InitUses /\ [][Next]_vars

\* Functions that return from blocks, loops and branches, a method that
\* returns, a function in a function, and a function whose return expression
\* fails.
UnwindsPrelude ==
    <<"f", "u", "n", " ", "g", "(", ")", "{", "r", "e", "t", "u", "r", "n",
      " ", "2", ";", "p", "r", "i", "n", "t", " ", "9", ";", "}", "f", "u",
      "n", " ", "f", "(", ")", "{", "{", "w", "h", "i", "l", "e", "(", "t",
      "r", "u", "e", ")", "{", "r", "e", "t", "u", "r", "n", " ", "g", "(",
      ")", "+", "1", ";", "}", "}", "p", "r", "i", "n", "t", " ", "8", ";",
      "}", "f", "u", "n", " ", "h", "(", ")", "{", "i", "f", "(", "t", "r",
      "u", "e", ")", "r", "e", "t", "u", "r", "n", ";", "p", "r", "i", "n",
      "t", " ", "7", ";", "}", "c", "l", "a", "s", "s", " ", "A", "{", "m",
      "(", ")", "{", "r", "e", "t", "u", "r", "n", " ", "4", ";", "p", "r",
      "i", "n", "t", " ", "6", ";", "}", "}", "f", "u", "n", " ", "k", "(",
      ")", "{", "f", "u", "n", " ", "j", "(", ")", "{", "r", "e", "t", "u",
      "r", "n", " ", "1", ";", "}", "j", "(", ")", ";", "r", "e", "t", "u",
      "r", "n", " ", "5", ";", "}", "f", "u", "n", " ", "e", "(", ")", "{",
      "r", "e", "t", "u", "r", "n", " ", "x", ";", "}">>

\* Calls of those functions, and a return outside any function.
UnwindsWords ==
    << <<"p", "r", "i", "n", "t", " ", "f", "(", ")", ";">>,
       <<"p", "r", "i", "n", "t", " ", "h", "(", ")", ";">>,
       <<"p", "r", "i", "n", "t", " ", "A", "(", ")", ".", "m", "(", ")",
         ";">>,
       <<"p", "r", "i", "n", "t", " ", "k", "(", ")", ";">>,
       <<"p", "r", "i", "n", "t", " ", "e", "(", ")", ";">>,
       <<"{", "r", "e", "t", "u", "r", "n", " ", "1", ";", "}">> >>

InitUnwinds == InitWith(UnwindsPrelude, UnwindsWords, MaxCalls)

SpecUnwinds == InitUnwinds /\ [][Next]_vars

\* A function that returns from nested blocks and one that fails in a block.
BlocksPrelude ==
    <<"f", "u", "n", " ", "f", "(", ")", "{", "{", "{", "r", "e", "t", "u",
      "r", "n", " ", "1", ";", "}", "}", "}", "f", "u", "n", " ", "e", "(",
      ")", "{", "{", "x", ";", "}", "}">>

\* Nested blocks that end normally, around a call that returns, around a
\* call that fails, and with a failing statement.
BlocksWords ==
    << <<"{", "{", "p", "r", "i", "n", "t", " ", "1", ";", "}", "p", "r",
         "i", "n", "t", " ", "2", ";", "}">>,
       <<"{", "f", "(", ")", ";", "p", "r", "i", "n", "t", " ", "3", ";",
         "}">>,
       <<"{", "{", "e", "(", ")", ";", "}", "}">>,
       <<"{", "{", "x", ";", "}", "}">>,
       <<"p", "r", "i", "n", "t", " ", "4", ";">> >>

InitBlocks == InitWith(BlocksPrelude, BlocksWords, MaxWords)

SpecBlocks == InitBlocks /\ [][Next]_vars

\* No prelude.
RecoveryPrelude ==
    <<>>

\* Statements with an error before a semicolon, before a keyword, at a
\* bracket, in a block and at the end, and a good one.
RecoveryWords ==
    << <<"v", "a", "r", " ", "1", " ", "2", ";", "p", "r", "i", "n", "t",
         " ", "3", ";">>,
       <<"(", "1", " ", "p", "r", "i", "n", "t", " ", "2", ";">>,
       <<")", " ", ")", " ", "v", "a", "r", " ", "a", ";">>,
       <<"{", "v", "a", "r", " ", ";", "}">>,
       <<"1", " ", "+">>,
       <<"p", "r", "i", "n", "t", " ", "1", ";">> >>

InitRecovery == InitWith(RecoveryPrelude, RecoveryWords, MaxWords)

SpecRecovery == InitRecovery /\ [][Next]_vars

\* No prelude.
TargetsPrelude ==
    <<>>

\* Assignments to a literal, a variable, a property, a grouping, and chains
\* of assignments with a bad target.
TargetsWords ==
    << <<"1", "=", "2", ";">>,
       <<"a", "=", "2", ";">>,
       <<"a", ".", "b", "=", "2", ";">>,
       <<"(", "a", ")", "=", "3", ";">>,
       <<"a", "=", "1", "=", "2", ";">>,
       <<"1", "=", "2", "=", "3", ";">> >>

InitTargets == InitWith(TargetsPrelude, TargetsWords, MaxWords)

SpecTargets == InitTargets /\ [][Next]_vars

\* The text of a list of n items with commas between them.
Items(item, n) == [i \in 1..(2 * n - 1) |-> IF i % 2 = 1 THEN item ELSE ","]

CallOf(n) == <<"f", "(">> \o Items("1", n) \o <<")", ";">>

FunOf(n) ==
    <<"f", "u", "n", " ", "f", "(">> \o Items("a", n) \o <<")", "{", "}">>

\* The number of long lists in a program.
MaxLists == 1

\* No prelude.
ArityPrelude == <<>>

\* Calls and function declarations with 255, 256 and 257 items.
ArityWords ==
    << CallOf(255), CallOf(256), CallOf(257),
       FunOf(255), FunOf(256), FunOf(257) >>

InitArity == InitWith(ArityPrelude, ArityWords, MaxLists)

\* The run up to the end of the parse.
NextParse ==
    \/ Lox
    \/ RunFile
    \/ ScanToken
    \/ ScanEnd
    \/ ParseDeclaration
    \/ ParseEnd
    \/ RunFileExit

SpecArity == InitArity /\ [][NextParse]_vars

\* No prelude.
StreamsPrelude == <<>>

\* Texts that end in the middle of a token or of a construct, a
\* character outside the language, and whole statements.
StreamsWords ==
    << <<"p", "r", "i", "n", "t", " ", "1", ";">>,
       <<"@">>,
       <<"\"", "a", "b">>,
       <<"1", " ", "+">>,
       <<"{">>,
       <<"/", "/", "c">>,
       <<"\"", "s", "\"", ";">> >>

InitStreams == InitWith(StreamsPrelude, StreamsWords, MaxWords)

SpecStreams == InitStreams /\ [][Next]_vars

\* No prelude.
ProgressPrelude == <<>>

\* Declarations that fail at their first token, at a keyword after
\* some tokens, inside a block and at the end of the text, and one that
\* parses.
ProgressWords ==
    << <<")">>,
       <<"{", ")", "}">>,
       <<"v", "a", "r", " ", "p", "r", "i", "n", "t", " ", "1", ";">>,
       <<"{", "(", "1", " ", "p", "r", "i", "n", "t", " ", "2", ";", "}">>,
       <<"p", "r", "i", "n", "t", " ", "1", ";">>,
       <<"{", "v", "a", "r", " ", ";", "}">>,
       <<"1", " ", "+">> >>

InitProgress == InitWith(ProgressPrelude, ProgressWords, MaxWords)

\* The parser is a sequential loop of a running program: a turn of the loop
\* that can be taken is taken.  This is weak fairness of ParseDeclaration
\* and of ParseEnd; for ParseDeclaration the enabling condition is written
\* out as the guard of the action.
SpecProgress ==
    /\ InitProgress
    /\ [][Next]_vars
    /\ \/ []<>~(pc = "parse" /\ ~ParseIsAtEnd(parser))
       \/ []<><<ParseDeclaration>>_vars
    /\ WF_vars(ParseEnd)

\* The program at the prompt.
NextPrompt ==
    \/ Lox
    \/ RunPrompt
    \/ ScanToken
    \/ ScanEnd
    \/ ParseDeclaration
    \/ ParseEnd
    \/ Resolve
    \/ InterpretStatement
    \/ InterpretEnd
    \/ RunAbsorb

\* The lines that can be typed: definitions of a variable, of a function
\* and of a class, uses of each, a line for every class of error, and a
\* line of white space.
PromptWords ==
    << <<" ", "v", "a", "r", " ", "a", "=", "1", ";", "p", "r", "i", "n",
         "t", " ", "a", ";", " ">>,
       <<"p", "r", "i", "n", "t", " ", "a", ";">>,
       <<"f", "u", "n", " ", "f", "(", ")", "{", "}", "c", "l", "a", "s",
         "s", " ", "A", "{", "}">>,
       <<"f", "(", ")", ";">>,
       <<"A", "(", ")", ";">>,
       <<"\"", "x">>,
       <<"1", " ", "+">>,
       <<"r", "e", "t", "u", "r", "n", " ", "1", ";">>,
       <<" ">> >>

\* The most lines that are typed.
MaxLines == 3

\* The command line without arguments, and the lines on the standard input.
InitPrompt ==
    /\ Idle
    /\ argc = 0
    /\ readable = FALSE
    /\ source = <<>>
    /\ words \in Choices(PromptWords, MaxLines)
    /\ stdin = [i \in 1..Len(words) |-> PromptWords[words[i]]]

SpecPrompt == InitPrompt /\ [][NextPrompt]_vars

(***************************************************************************)
(* Class::new and Class::find_method on their own: chains of classes of up *)
(* to MaxChain generations, each defining some of the method names, and    *)
(* lookups of a name in the newest class.                                  *)
(***************************************************************************)
MaxChain == 3

MethodNames == {"m", "n"}

LookupNames == {"m", "n", "k"}

RECURSIVE Generations(_)
Generations(class) ==
    IF class.variant # "Class" THEN 0 ELSE 1 + Generations(class.parent)

\* The method table of the class of a generation: each definition carries
\* the generation in its name token, as distinct declarations do their key.
GenerationMethods(generation, names) ==
    [name \in names |->
        FunctionNew(DefFunction(Token(TTIdentifier(generation, name), name,
                                      generation), <<>>, <<>>),
                    1, FALSE)]

\* Class::new: a class whose parent is the newest class of the chain.
ClassDerive ==
    /\ Generations(chain) < MaxChain
    /\ \E names \in SUBSET MethodNames :
          chain' = ClassNew(Token(TTIdentifier(0, "K"), "K",
                                  Generations(chain) + 1),
                            chain,
                            GenerationMethods(Generations(chain) + 1, names))
    /\ UNCHANGED <<Inputs, found, pc, scanner, parser, resolver, statements,
                   interp, cursor, result, exit, stages, consumed, executed,
                   failedAt>>

\* Class::find_method on the newest class.
FindMethod ==
    /\ chain # NoClass
    /\ \E name \in LookupNames :
          found' = [class |-> chain, name |-> name,
                    some |-> find_method(chain, name).some,
                    function |-> find_method(chain, name).function]
    /\ UNCHANGED <<Inputs, chain, pc, scanner, parser, resolver, statements,
                   interp, cursor, result, exit, stages, consumed, executed,
                   failedAt>>

InitFind ==
    /\ Idle
    /\ stdin = <<>>
    /\ argc = 1 /\ readable = FALSE /\ words = <<>> /\ source = <<>>

NextFind == ClassDerive \/ FindMethod

SpecFind == InitFind /\ [][NextFind]_vars

(***************************************************************************)
(* The environment functions on their own: a chain of up to MaxChain       *)
(* scopes, the global one included, each binding some of the scope names,  *)
(* and definitions, assignments and lookups of a name from a scope of the  *)
(* chain.  found is the record of the last of them, with the scopes as     *)
(* they were before it.                                                    *)
(***************************************************************************)
ScopeNames == {"a", "b"}

ReadNames == {"a", "b", "c"}

\* environment::new and environment::link: a scope enclosed by the newest.
ScopeNew ==
    /\ Len(interp.envs) < MaxChain
    /\ interp' = [interp EXCEPT
                    !.envs = Append(@, [enclosing |-> Len(interp.envs),
                                        values |-> EmptyMap]),
                    !.local = Len(interp.envs) + 1]
    /\ found' = NoLookup
    /\ UNCHANGED <<Inputs, chain, pc, scanner, parser, resolver, statements,
                   cursor, result, exit, stages, consumed, executed,
                   failedAt>>

\* The value that the assignments write.
Written == ObjString("w")

\* environment::define: the value bound tells the scope that binds it.
ScopeDefine ==
    /\ \E scope \in 1..Len(interp.envs) : \E name \in ScopeNames :
          /\ interp' = EnvDefine(interp, scope, name, ObjNumber(Rat(scope, 1)))
          /\ found' = [op |-> "define", scope |-> scope, name |-> name,
                       some |-> TRUE, val |-> ObjNumber(Rat(scope, 1)),
                       before |-> interp.envs]
    /\ UNCHANGED <<Inputs, chain, pc, scanner, parser, resolver, statements,
                   cursor, result, exit, stages, consumed, executed,
                   failedAt>>

\* environment::assign from a scope of the chain.
ScopeAssign ==
    /\ \E scope \in 1..Len(interp.envs) : \E name \in ReadNames :
          /\ interp' = EnvAssign(interp, scope, name, Written).I
          /\ found' = [op |-> "assign", scope |-> scope, name |-> name,
                       some |-> EnvAssign(interp, scope, name, Written).ok,
                       val |-> Written, before |-> interp.envs]
    /\ UNCHANGED <<Inputs, chain, pc, scanner, parser, resolver, statements,
                   cursor, result, exit, stages, consumed, executed,
                   failedAt>>

\* environment::get from a scope of the chain.
ScopeGet ==
    /\ \E scope \in 1..Len(interp.envs) : \E name \in ReadNames :
          found' = [op |-> "get", scope |-> scope, name |-> name,
                    some |-> EnvGet(interp, scope, name).some,
                    val |-> EnvGet(interp, scope, name).val,
                    before |-> interp.envs]
    /\ UNCHANGED <<Inputs, chain, pc, scanner, parser, resolver, statements,
                   interp, cursor, result, exit, stages, consumed, executed,
                   failedAt>>

NextScopes == ScopeNew \/ ScopeDefine \/ ScopeAssign \/ ScopeGet

SpecScopes == InitFind /\ [][NextScopes]_vars

(***************************************************************************)
(* The properties.                                                         *)
(***************************************************************************)
StageOrder == <<"scan", "parse", "resolve", "interpret">>

ErrorClasses == <<"Scan", "Parse", "Resolve", "Interpret">>

\* C1: run() invokes the stages in the order scan, parse, resolve,
\* interpret, and a stage runs only if every earlier stage's consume()
\* returned Ok; when the consume of the scanner, the parser or the resolver
\* returns an error, no later stage runs, no statement is executed, nothing
\* is printed, and run() returns that stage's own error class.
C1_StagesShortCircuit ==
    /\ Len(stages) <= Len(StageOrder)
    /\ stages = SubSeq(StageOrder, 1, Len(stages))
    /\ Len(consumed) <= Len(stages)
    /\ \A i \in 2..Len(stages) : consumed[i - 1]
    /\ \A i \in 1..Len(consumed) :
          (i <= 3 /\ ~consumed[i]) =>
              /\ Len(stages) = i
              /\ result = ErrorClasses[i]
              /\ executed = <<>>
              /\ interp.output = <<>>
    /\ result \in {"Scan", "Parse", "Resolve"} =>
          /\ Len(consumed) = Len(stages)
          /\ ~consumed[Len(consumed)]
          /\ result = ErrorClasses[Len(consumed)]

\* C1, its case: the parser's consume returned the error after the scanner's
\* returned the tokens, and the run ended with the Parse class.
C1_Witness ==
    /\ pc = "exit"
    /\ stages = <<"scan", "parse">>
    /\ consumed = <<TRUE, FALSE>>
    /\ result = "Parse"
    /\ parser.statements # <<>>

\* C2: if the scanner meets any lexical error then the stumbled flag is set
\* and Scanner::consume returns the Scan error; consume returns the token
\* list only when no scan diagnostic was reported during scan_tokens.
C2_LexicalErrorStumbles ==
    /\ scanner.diags # <<>> => scanner.stumbled
    /\ (Len(consumed) >= 1 /\ consumed[1]) => scanner.diags = <<>>

InterpretInOrder ==
    /\ \A i \in 1..Len(executed) : executed[i] = i
    /\ Len(executed) <= Len(statements)
    /\ failedAt # 0 =>
          /\ failedAt = Len(executed)
          /\ pc \in {"run_done", "exit"}
          /\ result = "Interpret"
          /\ Len(interp.diags) = 1
    /\ (failedAt = 0 /\ Len(stages) = 4) => interp.diags = <<>>
    /\ result = "Interpret" => failedAt # 0
    /\ result = "Ok" => /\ failedAt = 0
                        /\ Len(executed) = Len(statements)

\* C4: Interpreter::interpret executes the top-level statements in source
\* order and is fail-fast: once a runtime error has surfaced no later
\* statement is executed and nothing more is printed, and interpret returns
\* Interpret; with no runtime error every statement is executed exactly once
\* and interpret returns Ok.
C4_InterpretFailFast ==
    /\ []InterpretInOrder
    /\ [][failedAt # 0 =>
            /\ interp'.output = interp.output
            /\ executed' = executed]_vars

C4_Witness ==
    /\ pc = "exit"
    /\ Len(statements) = 3
    /\ failedAt = 2
    /\ executed = <<1, 2>>
    /\ interp.output = <<"1">>
    /\ result = "Interpret"

\* C5: on a file run the process exits with 0 exactly when run() returned Ok,
\* with 65 exactly when it returned Scan, Parse or Resolve, with 70 exactly
\* when it returned Interpret, with 66 exactly when the file could not be
\* read, and with 64 exactly when more than one argument was given.
C5_ExitCodes ==
    /\ pc # "exit" => exit = {}
    /\ pc = "exit" =>
          /\ exit \in {{ExitOk}, {ExitUsage}, {ExitDataErr}, {ExitNoInput},
                        {ExitSoftware}}
          /\ exit = {ExitOk} <=> result = "Ok"
          /\ exit = {ExitDataErr} <=> result \in {"Scan", "Parse", "Resolve"}
          /\ exit = {ExitSoftware} <=> result = "Interpret"
          /\ exit = {ExitNoInput} <=> (argc = 1 /\ ~readable)
          /\ exit = {ExitUsage} <=> argc > 1
          /\ exit \in {{ExitNoInput}, {ExitUsage}} => stages = <<>>

C5_Witness ==
    /\ pc = "exit"
    /\ argc = 1
    /\ readable
    /\ result = "Interpret"
    /\ exit = {ExitSoftware}

\* The events of the interpreter's log of one kind.
Events(kind) == {i \in 1..Len(interp.trace) : interp.trace[i].ev = kind}

\* What the calls of the two counters print: each call prints how many times
\* that counter has been called, whatever the other counter or a global of
\* the same name did.  ws is the words executed, by their place in the menu.
RECURSIVE CounterOutput(_)
CounterOutput(ws) ==
    IF ws = <<>> THEN <<>>
    ELSE LET last == ws[Len(ws)]
             before == CounterOutput(SubSeq(ws, 1, Len(ws) - 1))
         IN  IF last = 3 THEN before
             ELSE Append(before,
                    NatToString(Cardinality({i \in 1..Len(ws) : ws[i] = last})))

\* The words whose statements have been executed.
WordsExecuted ==
    IF Len(executed) <= Len(statements) - Len(words) THEN <<>>
    ELSE SubSeq(words, 1, Len(executed) - (Len(statements) - Len(words)))

\* C6: a function value captures the scope current at its declaration and
\* every call runs the body in a fresh scope enclosed by the captured one;
\* so successive calls of one closure see each other's assignments, and the
\* closures made by two calls of the enclosing function never see each
\* other's assignments to its locals.
C6_ClosureFidelity ==
    /\ \A i \in Events("Function") :
          interp.trace[i].function.closure = interp.trace[i].local
    /\ \A i \in Events("FunctionCall") :
          LET e == interp.trace[i] IN
          /\ e.local = e.before + 1
          /\ interp.envs[e.local].enclosing = e.function.closure
          /\ \A j \in Events("FunctionCall") :
                i # j => interp.trace[j].local # e.local
    /\ \A i, j \in Events("Function") :
          (/\ i # j
           /\ interp.trace[i].function.definition
                 = interp.trace[j].function.definition)
          => interp.trace[i].function.closure
               # interp.trace[j].function.closure
    /\ Len(stages) = 4 => interp.output = CounterOutput(WordsExecuted)

C6_Witness ==
    /\ pc = "exit"
    /\ result = "Ok"
    /\ words = <<1, 2, 1>>
    /\ interp.output = <<"1", "1", "2">>
    /\ Cardinality(Events("FunctionCall")) = 5

\* The value bound to `this` in the closure of a function, if there is one.
ThisOf(fn) ==
    IF "this" \in DOMAIN interp.envs[fn.closure].values
    THEN [some |-> TRUE, val |-> interp.envs[fn.closure].values["this"]]
    ELSE [some |-> FALSE, val |-> ObjNil]

RECURSIVE Lineage(_)
Lineage(class) ==
    IF class.variant # "Class" THEN <<>>
    ELSE <<class>> \o Lineage(class.parent)

\* The places in the lineage of the classes that define the name.
Definers(class, name) ==
    {i \in 1..Len(Lineage(class)) : name \in DOMAIN Lineage(class)[i].methods}

\* The definition of the name by the nearest class of the lineage.
Nearest(class, name) ==
    Lineage(class)[Min(Definers(class, name))].methods[name]

\* The arity a class must have: that of the nearest init, or 0.
ArityOfInit(class) ==
    IF Definers(class, "init") = {} THEN 0
    ELSE Len(Nearest(class, "init").definition.parameters)

\* The call of the initializer that a call of a class made: the event logged
\* just before it is a call of the nearest init, bound to the instance, with
\* the parameters defined as the arguments of the call of the class.
InitializerCalled(i) ==
    LET e == interp.trace[i] IN
    /\ i > 1
    /\ interp.trace[i - 1].ev = "FunctionCall"
    /\ LET f == interp.trace[i - 1] IN
       /\ f.function.definition = Nearest(e.class, "init").definition
       /\ f.function.is_initializer
       /\ ThisOf(f.function).some
       /\ ThisOf(f.function).val = e.instance
       /\ \A k \in 1..Len(e.arguments) :
             interp.envs[f.local].values[
                 to_name(f.function.definition.parameters[k]).name]
               = e.arguments[k]
       /\ e.ok = f.ok
       /\ e.ok => e.val = f.val

C9_FindMethodNearest ==
    found.name # "" =>
        /\ found.some <=> Definers(found.class, found.name) # {}
        /\ found.some =>
              /\ found.function = Nearest(found.class, found.name)
              /\ \A i \in Definers(found.class, found.name) :
                    (\A j \in 1..(i - 1) :
                        found.name \notin DOMAIN Lineage(found.class)[j].methods)
                    => found.function
                         = Lineage(found.class)[i].methods[found.name]

C9_Witness ==
    /\ found.some
    /\ Len(Lineage(found.class)) = MaxChain
    /\ Definers(found.class, found.name) = {2, 3}
    /\ found.function.definition.name.line = 2

\* The property accesses of the log that gave a callable.
MethodAccesses ==
    {i \in Events("Get") : interp.trace[i].val.tag = "Callable"}

\* C10: two evaluations of a property access give callables that compare
\* equal exactly when both were evaluated on the same instance and found the
\* same method definition.
C10_MethodBindingEquality ==
    \A i, j \in MethodAccesses :
        i # j =>
            (ObjectEq(interp, interp.trace[i].val, interp.trace[j].val)
             <=> /\ interp.trace[i].instance.fields
                      = interp.trace[j].instance.fields
                 /\ interp.trace[i].val.callable.definition
                      = interp.trace[j].val.callable.definition)

\* C11: the == operator is reflexive within each tag and false across tags:
\* a value equals itself, values of different tags are never equal, nil
\* equals nil, and two distinct instances are told apart.
C11_EqualityWithinTag ==
    \A i \in Events("Equal") :
        LET e == interp.trace[i] IN
        /\ e.left = e.right => e.val
        /\ e.left.tag # e.right.tag => ~e.val
        /\ (/\ e.left.tag = "Instance"
            /\ e.right.tag = "Instance"
            /\ e.left.fields # e.right.fields) => ~e.val

\* The operands of the logical words: what evaluating one prints, how its
\* value is shown, and whether the value is truthy.
Truthy == [prints |-> <<"1">>, shown |-> "7", truthy |-> TRUE]

Falsy == [prints |-> <<"0">>, shown |-> "nil", truthy |-> FALSE]

LogicalOperands ==
    << [left |-> Truthy, or |-> TRUE, right |-> Falsy],
       [left |-> Falsy, or |-> TRUE, right |-> Truthy],
       [left |-> Truthy, or |-> FALSE, right |-> Falsy],
       [left |-> Falsy, or |-> FALSE, right |-> Truthy] >>

\* What printing a logical expression prints: the left operand's effects,
\* then either the left value or the right operand's effects and value.
LogicalLines(w) ==
    w.left.prints \o
        (IF w.or = w.left.truthy THEN <<w.left.shown>>
         ELSE w.right.prints \o <<w.right.shown>>)

RECURSIVE LogicalOutput(_)
LogicalOutput(ws) ==
    IF ws = <<>> THEN <<>>
    ELSE LogicalLines(LogicalOperands[Head(ws)]) \o LogicalOutput(Tail(ws))

\* C12: `a or b` evaluates a first and b only when a is falsy, `a and b`
\* evaluates a first and b only when a is truthy; a skipped operand has no
\* effect, and the result is the deciding operand's own value.
C12_ShortCircuit ==
    Len(stages) = 4 =>
        /\ interp.output = LogicalOutput(WordsExecuted)
        /\ Cardinality(Events("FunctionCall")) + Len(WordsExecuted)
             = Len(interp.output)

C12_Witness ==
    /\ pc = "exit"
    /\ result = "Ok"
    /\ words = <<1, 4, 2>>
    /\ interp.output = <<"1", "7", "0", "nil", "0", "1", "7">>

\* The calls of the call words: whether the callee is callable, the number of
\* its parameters, and what evaluating each argument prints.
CallOperands ==
    << [callable |-> TRUE, arity |-> 2, arguments |-> <<"1", "2">>],
       [callable |-> TRUE, arity |-> 2, arguments |-> <<"1">>],
       [callable |-> FALSE, arity |-> 0, arguments |-> <<"1">>],
       [callable |-> TRUE, arity |-> 2, arguments |-> <<"1", "2", "3">>] >>

\* What a call prints: nothing for a callee that is not callable, else the
\* arguments' lines from left to right and, with the right number of
\* arguments, the line of the body.
CallLines(w) ==
    IF ~w.callable THEN <<>>
    ELSE w.arguments \o (IF Len(w.arguments) = w.arity THEN <<"9">> ELSE <<>>)

\* The runtime error of a call, "" when there is none.
CallError(w) ==
    IF ~w.callable THEN "Can only call functions and classes."
    ELSE IF Len(w.arguments) # w.arity
    THEN "Expected " \o NatToString(w.arity) \o " arguments but got "
         \o NatToString(Len(w.arguments)) \o "."
    ELSE ""

RECURSIVE CallOutput(_)
CallOutput(ws) ==
    IF ws = <<>> THEN <<>>
    ELSE CallLines(CallOperands[Head(ws)]) \o CallOutput(Tail(ws))

\* C13: a call evaluates the callee first and raises "Can only call functions
\* and classes." without evaluating an argument when it is not callable;
\* otherwise every argument is evaluated from left to right before the arity
\* is checked, and a wrong argument count raises "Expected N arguments but
\* got M." without entering the body.
C13_CallProtocol ==
    Len(stages) = 4 =>
        /\ interp.output = CallOutput(WordsExecuted)
        /\ \A k \in 1..Len(WordsExecuted) :
              LET message == CallError(CallOperands[WordsExecuted[k]]) IN
              IF message = "" THEN failedAt # Len(executed) \/ k < Len(WordsExecuted)
              ELSE /\ k = Len(WordsExecuted)
                   /\ failedAt = Len(executed)
                   /\ interp.diags = <<message>>
        /\ failedAt = 0 => interp.diags = <<>>

C13_Witness ==
    /\ pc = "exit"
    /\ words = <<1, 4>>
    /\ interp.output = <<"1", "2", "9", "1", "2", "3">>
    /\ interp.diags = <<"Expected 2 arguments but got 3.">>

\* The reads of the read words: how many blocks enclose the read, and whether
\* it stands in the initializer of a variable of its own name declared in
\* the innermost of them.
ReadOperands ==
    << [blocks |-> 1, own |-> TRUE],
       [blocks |-> 1, own |-> FALSE],
       [blocks |-> 0, own |-> TRUE],
       [blocks |-> 2, own |-> FALSE],
       [blocks |-> 2, own |-> TRUE] >>

ReadReported(w) == ReadOperands[w].blocks > 0 /\ ReadOperands[w].own

\* C14: the resolver reports "Can't read local variable in its own
\* initializer." exactly for a read, inside a local scope, of a variable
\* declared but not yet defined in the innermost scope; reads of a defined
\* variable and reads at top level are not reported, and a report makes
\* Resolver::consume give the Resolve error.
C14_OwnInitializer ==
    /\ Len(consumed) < 3 => resolver.diags = <<>>
    /\ Len(consumed) >= 3 =>
          /\ Len(resolver.diags) = Len(SelectSeq(words, ReadReported))
          /\ \A i \in 1..Len(resolver.diags) :
                /\ resolver.diags[i].message
                     = "Can't read local variable in its own initializer."
                /\ resolver.diags[i].token.lexeme = "a"
          /\ consumed[3] <=> SelectSeq(words, ReadReported) = <<>>
          /\ ~consumed[3] => (result = "Resolve" /\ Len(stages) = 3)

C14_Witness ==
    /\ pc = "exit"
    /\ words = <<2, 5, 4>>
    /\ result = "Resolve"
    /\ Len(resolver.diags) = 1
    /\ resolver.diags[1].token.token_type.id = 4

\* The return statements of the return words: the kind of the innermost
\* function body around the statement, and whether it returns a value.
ReturnOperands ==
    << [around |-> "none", value |-> FALSE],
       [around |-> "function", value |-> TRUE],
       [around |-> "initializer", value |-> TRUE],
       [around |-> "initializer", value |-> FALSE],
       [around |-> "function", value |-> TRUE],
       [around |-> "method", value |-> TRUE],
       [around |-> "initializer", value |-> TRUE],
       [around |-> "none", value |-> TRUE] >>

\* The diagnostics that a return statement must get.
ReturnReports(w) ==
    (IF w.around = "none" THEN <<"Can't return from top-level code.">>
     ELSE <<>>)
    \o (IF w.value /\ w.around = "initializer"
        THEN <<"Can't return a value from an initializer.">> ELSE <<>>)

RECURSIVE ReturnDiagnostics(_)
ReturnDiagnostics(ws) ==
    IF ws = <<>> THEN <<>>
    ELSE ReturnReports(ReturnOperands[Head(ws)]) \o ReturnDiagnostics(Tail(ws))

\* C15: the resolver reports a return statement as "Can't return from
\* top-level code." exactly when no function or method body encloses it, and
\* `return value;` as "Can't return a value from an initializer." exactly
\* when the innermost enclosing function is a method named init; a bare
\* return in init and a return of a value in a function nested in init are
\* accepted, the function context being restored on leaving a body.
C15_ReturnRules ==
    /\ Len(consumed) < 3 => resolver.diags = <<>>
    /\ Len(consumed) >= 3 =>
          /\ Len(resolver.diags) = Len(ReturnDiagnostics(words))
          /\ \A i \in 1..Len(resolver.diags) :
                /\ resolver.diags[i].message = ReturnDiagnostics(words)[i]
                /\ resolver.diags[i].token.token_type.kind = "Return"
          /\ consumed[3] <=> ReturnDiagnostics(words) = <<>>
          /\ ~consumed[3] => result = "Resolve"
          /\ resolver.function_scope = "Global"

C15_Witness ==
    /\ pc = "exit"
    /\ words = <<5, 7>>
    /\ result = "Resolve"
    /\ Len(resolver.diags) = 1
    /\ resolver.diags[1].message = "Can't return a value from an initializer."

\* The diagnostic that the super expression of a super word must get, ""
\* when it must be accepted or the word has none.
SuperReports ==
    <<"Can't use 'super' outside of a class.",
      "Can't use 'super' in a class with no superclass.", "", "">>

RECURSIVE SuperDiagnostics(_)
SuperDiagnostics(ws) ==
    IF ws = <<>> THEN <<>>
    ELSE (IF SuperReports[Head(ws)] = "" THEN <<>>
          ELSE <<SuperReports[Head(ws)]>>) \o SuperDiagnostics(Tail(ws))

\* The keys that the resolver gave a hop count.
Resolved == DOMAIN resolver.resolutions

\* C16: the resolver reports a super expression outside any class and one in
\* a class without a parent, each with its message, and accepts one in a
\* class with a parent without a diagnostic and gives it the hop count of
\* the scope that defines super; the verdict follows the innermost class.
C16_SuperRules ==
    /\ ~resolver.panicked
    /\ pc # "panic"
    /\ Len(consumed) >= 3 =>
          /\ Len(resolver.diags) = Len(SuperDiagnostics(words))
          /\ \A i \in 1..Len(resolver.diags) :
                resolver.diags[i].message = SuperDiagnostics(words)[i]
          /\ consumed[3] <=> SuperDiagnostics(words) = <<>>
          /\ \A i \in 1..Len(statements) :
                (/\ statements[i].node = "Class"
                 /\ IsSome(statements[i].parent)
                 /\ consumed[3])
                => \E k \in Resolved : resolver.resolutions[k] = 2

\* The places of the token list whose token carries a key.
Keyed ==
    {i \in 1..Len(scanner.tokens) :
        scanner.tokens[i].token_type.kind \in {"Identifier", "This", "Super"}}

\* C17: in the token list of a scan every Identifier, this and super token
\* carries a key, the keys come from one counter in the order of the tokens
\* starting at 0, so no two tokens share a key, and no other token takes one.
C17_UniqueKeys ==
    /\ \A i \in Keyed :
          scanner.tokens[i].token_type.id
            = Cardinality({j \in Keyed : j < i})
    /\ \A i, j \in Keyed :
          i # j => scanner.tokens[i].token_type.id
                     # scanner.tokens[j].token_type.id
    /\ \A i \in 1..Len(scanner.tokens) :
          i \notin Keyed => "id" \notin DOMAIN scanner.tokens[i].token_type
    /\ scanner.identifier_key = Cardinality(Keyed)

C17_Witness ==
    /\ words = <<4, 2, 3>>
    /\ Len(scanner.tokens) = 10
    /\ scanner.tokens[10].token_type.kind = "EndOfFile"
    /\ Cardinality(Keyed) = 4
    /\ scanner.tokens[6].token_type = TTKeyed("Super", 2)

\* A scope and the scopes that enclose it, nearest first.
RECURSIVE Enclosing(_)
Enclosing(scope) ==
    IF scope = 0 THEN <<>>
    ELSE <<scope>> \o Enclosing(interp.envs[scope].enclosing)

\* The places in that list of the scopes that bind the name.
Binders(scope, name) ==
    {i \in 1..Len(Enclosing(scope)) :
        name \in DOMAIN interp.envs[Enclosing(scope)[i]].values}

\* C18: a lookup from a scope answers with the value bound in the nearest
\* scope of the chain (the scope itself first, then each enclosing scope in
\* order) that binds the name, so an inner binding shadows an outer one and
\* an outer one is seen through every scope linked to it; the name is
\* undefined only when no scope of the chain binds it; the lookup leaves the
\* scopes as they were.
C18_GetNearestBinding ==
    (found.name # "" /\ found.op = "get") =>
        /\ interp.envs = found.before
        /\ found.some <=> Binders(found.scope, found.name) # {}
        /\ found.some =>
              /\ found.val =
                    interp.envs[Enclosing(found.scope)[
                        Min(Binders(found.scope, found.name))]].values[found.name]
              /\ \/ found.val = Written
                 \/ found.val.n.num
                      = Enclosing(found.scope)[Min(Binders(found.scope, found.name))]
        /\ ~found.some =>
              \A scope \in 1..found.scope :
                  found.name \notin DOMAIN interp.envs[scope].values

C18_Witness ==
    /\ found.some
    /\ found.op = "get"
    /\ found.scope = MaxChain
    /\ Binders(found.scope, found.name) = {2, 3}
    /\ found.val = ObjNumber(Rat(MaxChain - 1, 1))

\* C19: in a program that passed resolution, every variable read, assignment
\* and this that the interpreter evaluates at a recorded distance finds the
\* scope at that distance from the local scope, and finds the name bound in
\* it.
C19_HopsAgree ==
    \A i \in Events("Hop") : interp.trace[i].bound

\* The hop counts of the hop words: how many keyed tokens each word has, and
\* the distance of those of its tokens that name a local, counted from the
\* word's first keyed token.
HopTable ==
    << [keys |-> 2, hops |-> {<<1, 1>>}],
       [keys |-> 4, hops |-> {<<2, 0>>, <<3, 0>>}],
       [keys |-> 1, hops |-> {}],
       [keys |-> 2, hops |-> {}],
       [keys |-> 5, hops |-> {<<3, 1>>}],
       [keys |-> 5, hops |-> {<<3, 2>>}] >>

HopPrelude == [keys |-> 4, hops |-> {<<2, 1>>}]

RECURSIVE HopsFrom(_, _)
HopsFrom(ws, offset) ==
    IF ws = <<>> THEN {}
    ELSE {<<offset + h[1], h[2]>> : h \in HopTable[Head(ws)].hops}
         \union HopsFrom(Tail(ws), offset + HopTable[Head(ws)].keys)

HopsExpected == HopPrelude.hops \union HopsFrom(words, HopPrelude.keys)

HopsRecorded ==
    {<<id, resolver.resolutions[id]>> : id \in DOMAIN resolver.resolutions}

\* C20: once the resolver has been given the program, the resolution map
\* holds, for every variable, assignment, this and super token that names
\* something in a scope of the stack, the number of scopes between the
\* innermost scope and the nearest one that contains the name, and holds
\* nothing for the other tokens.
C20_HopCounts ==
    (Len(consumed) >= 2 /\ consumed[2] /\ pc # "resolve") =>
        HopsRecorded = HopsExpected

\* The uses of the use words: how many keyed tokens each word has and, for
\* each token that is a variable read, an assignment target or this (counted
\* from the word's first keyed token), whether a local scope around the token
\* declares its name before the token, and whether one declares it anywhere.
UseTable ==
    << [keys |-> 2, uses |-> {[at |-> 1, before |-> TRUE, enclosing |-> TRUE]}],
       [keys |-> 2, uses |-> {[at |-> 0, before |-> FALSE, enclosing |-> TRUE]}],
       [keys |-> 1, uses |-> {[at |-> 0, before |-> FALSE, enclosing |-> FALSE]}],
       [keys |-> 4, uses |-> {[at |-> 2, before |-> TRUE, enclosing |-> TRUE],
                              [at |-> 3, before |-> FALSE, enclosing |-> FALSE]}],
       [keys |-> 3, uses |-> {[at |-> 1, before |-> FALSE, enclosing |-> TRUE]}],
       [keys |-> 3, uses |-> {[at |-> 2, before |-> TRUE, enclosing |-> TRUE]}] >>

RECURSIVE UsesFrom(_, _)
UsesFrom(ws, offset) ==
    IF ws = <<>> THEN {}
    ELSE {[u EXCEPT !.at = offset + @] : u \in UseTable[Head(ws)].uses}
         \union UsesFrom(Tail(ws), offset + UseTable[Head(ws)].keys)

\* The resolver has accepted the program.
ResolvedOk == Len(consumed) >= 3 /\ consumed[3]

\* C21 as stated: in a resolved program every use has an entry in the
\* resolution map unless no local scope around it declares its name.
C21_CoverageAnywhere ==
    ResolvedOk =>
        \A u \in UsesFrom(words, 0) :
            u.at \in DOMAIN resolver.resolutions \/ ~u.enclosing

\* C21: in a resolved program every use has an entry in the resolution map
\* unless no local scope around it has declared its name by the time the use
\* is resolved; a name the scope declares only later counts as a global.
C21_CoverageAtUse ==
    ResolvedOk =>
        /\ \A u \in UsesFrom(words, 0) :
              u.at \in DOMAIN resolver.resolutions <=> u.before
        /\ DOMAIN resolver.resolutions \subseteq {u.at : u \in UsesFrom(words, 0)}

C21_Witness ==
    /\ ResolvedOk
    /\ words = <<4, 2>>
    /\ DOMAIN resolver.resolutions = {2}

\* What each unwind word prints when it runs, and whether it ends the run
\* with a runtime error.
UnwindLines ==
    << [prints |-> <<"3">>, fails |-> FALSE],
       [prints |-> <<"nil">>, fails |-> FALSE],
       [prints |-> <<"4">>, fails |-> FALSE],
       [prints |-> <<"5">>, fails |-> FALSE],
       [prints |-> <<>>, fails |-> TRUE],
       [prints |-> <<>>, fails |-> FALSE] >>

RECURSIVE UnwindOutput(_)
UnwindOutput(ws) ==
    IF ws = <<>> THEN <<>>
    ELSE UnwindLines[Head(ws)].prints \o UnwindOutput(Tail(ws))

\* C22: in a program that passed resolution a Return unwind ends at the call
\* whose body raised it and becomes that call's result: no call answers with
\* a Return unwind, the statements after the return are skipped and those
\* after the call go on, and the loop of interpret never meets a Return, so
\* it never panics with "uncaught return".  A program with a return outside
\* a function does not pass resolution and is not run.
C22_ReturnsConfined ==
    /\ \A i \in Events("FunctionCall") :
          /\ interp.trace[i].answer.kind # "Return"
          /\ interp.trace[i].body = "Return" => interp.trace[i].ok
    /\ Events("Uncaught") = {}
    /\ pc # "panic"
    /\ Len(stages) = 4 => interp.output = UnwindOutput(WordsExecuted)
    /\ (\E k \in 1..Len(words) : words[k] = 6) => Len(stages) < 4

C22_Witness ==
    /\ pc = "exit"
    /\ result = "Ok"
    /\ words = <<1, 3>>
    /\ interp.output = <<"3", "4">>
    /\ Cardinality({i \in Events("FunctionCall") :
                        interp.trace[i].body = "Return"}) = 3

\* The blocks of the log that ended in the given way.
BlocksEnded(how) == {i \in Events("Block") : interp.trace[i].how = how}

\* C23: execute_block leaves the local scope as it found it however the
\* block ends (normally, by a runtime error or by a Return), so after every
\* block and every call the scope is again that of the enclosing code, at
\* the top level the global scope; the global scope never changes.
C23_ScopeRestored ==
    /\ \A i \in Events("Block") :
          interp.trace[i].how \in {"Ok", "Error", "Return"} =>
              /\ interp.trace[i].exit = interp.trace[i].entry
              /\ interp.trace[i].scope # interp.trace[i].entry
    /\ \A i \in Events("FunctionCall") :
          \E j \in Events("Block") :
              /\ j < i
              /\ interp.trace[j].scope = interp.trace[i].local
              /\ interp.trace[j].exit = interp.trace[j].entry
    /\ interp.global = 1
    /\ Len(stages) = 4 => interp.local = interp.global

C23_Witness ==
    /\ pc = "exit"
    /\ words = <<1, 2, 3>>
    /\ BlocksEnded("Ok") # {}
    /\ BlocksEnded("Return") # {}
    /\ Cardinality(BlocksEnded("Error")) = 4
    /\ interp.local = interp.global

\* A scope of the scopes before the last operation and the scopes that
\* enclose it, nearest first.
RECURSIVE EnclosingBefore(_)
EnclosingBefore(scope) ==
    IF scope = 0 THEN <<>>
    ELSE <<scope>> \o EnclosingBefore(found.before[scope].enclosing)

\* The places in that list of the scopes that bound the name.
BindersBefore(scope, name) ==
    {i \in 1..Len(EnclosingBefore(scope)) :
        name \in DOMAIN found.before[EnclosingBefore(scope)[i]].values}

\* The scopes are what they were before the last operation, but for the
\* binding of the operation's name in scopes other than those of the set.
Untouched(targets) ==
    /\ Len(interp.envs) = Len(found.before)
    /\ \A scope \in 1..Len(interp.envs) :
          /\ interp.envs[scope].enclosing = found.before[scope].enclosing
          /\ \A name \in DOMAIN interp.envs[scope].values
                           \union DOMAIN found.before[scope].values :
                (scope \notin targets \/ name # found.name) =>
                    /\ name \in DOMAIN interp.envs[scope].values
                    /\ name \in DOMAIN found.before[scope].values
                    /\ interp.envs[scope].values[name]
                         = found.before[scope].values[name]

\* The scope that an assignment from the scope reaches: the nearest of the
\* chain that bound the name.
Reached ==
    EnclosingBefore(found.scope)[Min(BindersBefore(found.scope, found.name))]

\* C24: an assignment replaces the value in the nearest scope of the chain
\* that already binds the name and changes nothing else; when no scope of
\* the chain binds the name it fails and changes nothing, so it never makes
\* a binding.  A definition binds the name in its own scope, bound there
\* before or not, and changes nothing else.
C24_AssignNeverCreates ==
    /\ (found.name # "" /\ found.op = "assign") =>
          IF BindersBefore(found.scope, found.name) = {}
          THEN ~found.some /\ interp.envs = found.before
          ELSE /\ found.some
               /\ interp.envs[Reached].values[found.name] = found.val
               /\ Untouched({Reached})
    /\ (found.name # "" /\ found.op = "define") =>
          /\ found.name \in DOMAIN interp.envs[found.scope].values
          /\ interp.envs[found.scope].values[found.name] = found.val
          /\ Untouched({found.scope})

\* An assignment from the innermost scope passes a scope without the name,
\* replaces the binding of the middle scope and leaves that of the outermost.
C24_Witness ==
    /\ found.name # ""
    /\ found.op = "assign"
    /\ found.scope = MaxChain
    /\ BindersBefore(found.scope, found.name) = {2, 3}
    /\ interp.envs[MaxChain - 1].values[found.name] = Written
    /\ interp.envs[MaxChain - 2].values[found.name] # Written

\* The kind of the token at a place of the parser's list.
KindAt(place) == parser.tokens[place].token_type.kind

\* The kinds at which a recovery stops without consuming the token.
SyncStops ==
    {"Class", "For", "Fun", "If", "Print", "Return", "Var", "While",
     "EndOfFile"}

\* Where a recovery that begins at a place must end: the first place that
\* follows a skipped semicolon or holds a stopping token.
SyncEnd(from) ==
    Min({place \in from..Len(parser.tokens) :
            \/ place > from /\ KindAt(place - 1) = "Semicolon"
            \/ KindAt(place) \in SyncStops})

\* The recoveries of the parser's log.
Recoveries ==
    {k \in 1..Len(parser.log) : parser.log[k].ev = "synchronize"}

\* C25: a recovery discards tokens until a semicolon has just been consumed
\* or the next token is one of class, for, fun, if, print, return, var,
\* while, or the end of the file; it consumes none of those keywords and not
\* the end of the file, and the next declaration begins at the token where
\* the recovery ended (after the closing brace when that token closes the
\* block the error was in).
C25_Synchronize ==
    \A k \in Recoveries :
        LET e == parser.log[k] IN
        /\ e.to = SyncEnd(e.at)
        /\ \A place \in e.at..(e.to - 1) : KindAt(place) \notin SyncStops
        /\ \A place \in e.at..(e.to - 2) : KindAt(place) # "Semicolon"
        /\ e.to <= Len(parser.tokens)
        /\ (k < Len(parser.log) /\ parser.log[k + 1].ev = "declaration") =>
              /\ parser.log[k + 1].at >= e.to
              /\ KindAt(e.to) # "RightBrace" => parser.log[k + 1].at = e.to

\* A recovery that skipped tokens up to a semicolon, then one that stopped
\* at a keyword without skipping, each followed by a declaration there.
C25_Witness ==
    /\ words = <<1, 2>>
    /\ Cardinality(Recoveries) = 2
    /\ \E k \in Recoveries :
          /\ k < Len(parser.log)
          /\ parser.log[k].to = parser.log[k].at + 3
          /\ parser.log[k + 1] = [ev |-> "declaration", at |-> parser.log[k].to,
                                   to |-> parser.log[k].to]
    /\ \E k \in Recoveries :
          /\ k < Len(parser.log)
          /\ parser.log[k].to = parser.log[k].at
          /\ KindAt(parser.log[k].to) = "Print"
          /\ parser.log[k + 1].ev = "declaration"

\* An expression written out, assignments in brackets.
RECURSIVE Outline(_)
Outline(e) ==
    CASE e.node = "Literal" -> Display(e.literal)
      [] e.node = "Variable" -> e.name.lexeme
      [] e.node = "Grouping" -> "(" \o Outline(e.expression) \o ")"
      [] e.node = "Get" -> Outline(e.object) \o "." \o e.name.lexeme
      [] e.node = "Assignment" ->
            "[" \o e.name.lexeme \o "=" \o Outline(e.value) \o "]"
      [] e.node = "Set" ->
            "[" \o Outline(e.object) \o "." \o e.name.lexeme \o "="
                \o Outline(e.value) \o "]"
      [] OTHER -> "?"

\* The target words: the number of tokens of each, how many bad targets it
\* has, and the expression its statement must hold.
TargetTable ==
    << [tokens |-> 4, reports |-> 1, outline |-> "2"],
       [tokens |-> 4, reports |-> 0, outline |-> "[a=2]"],
       [tokens |-> 6, reports |-> 0, outline |-> "[a.b=2]"],
       [tokens |-> 6, reports |-> 1, outline |-> "3"],
       [tokens |-> 6, reports |-> 1, outline |-> "[a=2]"],
       [tokens |-> 6, reports |-> 2, outline |-> "3"] >>

\* The sum of a field of the table over the first words.
RECURSIVE TargetSum(_, _)
TargetSum(field, count) ==
    IF count = 0 THEN 0
    ELSE TargetTable[words[count]][field] + TargetSum(field, count - 1)

\* C26: an `=` after an expression that is neither a variable nor a property
\* access is reported as "Invalid assignment target." at the `=`, sets the
\* stumble flag and starts no recovery: no token is skipped, the value's
\* expression stands in place of the assignment and the statement is parsed
\* to its end.  A variable gives an Assignment and a property access a Set
\* without a diagnostic.
C26_InvalidTarget ==
    LET done == Len(parser.statements) IN
    Len(stages) >= 2 =>
        /\ Recoveries = {}
        /\ Len(parser.log) = IF ParseIsAtEnd(parser) THEN Len(words)
                              ELSE done
        /\ \A k \in 1..Len(parser.log) :
              parser.log[k].at = 1 + TargetSum("tokens", k - 1)
        /\ parser.pos = 1 + TargetSum("tokens", done)
        /\ Len(parser.diags) = TargetSum("reports", done)
        /\ parser.stumbled <=> TargetSum("reports", done) > 0
        /\ \A k \in 1..Len(parser.diags) :
              /\ parser.diags[k].message = "Invalid assignment target."
              /\ parser.diags[k].token.token_type.kind = "Equal"
        /\ \A k \in 1..done :
              /\ parser.statements[k].node = "Expression"
              /\ Outline(parser.statements[k].expression)
                   = TargetTable[words[k]].outline

C26_Witness ==
    /\ words = <<6, 3, 4>>
    /\ pc = "exit"
    /\ Len(parser.statements) = 3
    /\ Len(parser.diags) = 3
    /\ parser.statements[2].expression.node = "Set"
    /\ parser.statements[3].expression.node = "Literal"

\* The arity words: whether the list is one of arguments, how many items it
\* has, and how many diagnostics it must draw.
ArityTable ==
    << [call |-> TRUE, items |-> 255, reports |-> 0],
       [call |-> TRUE, items |-> 256, reports |-> 1],
       [call |-> TRUE, items |-> 257, reports |-> 1],
       [call |-> FALSE, items |-> 255, reports |-> 0],
       [call |-> FALSE, items |-> 256, reports |-> 1],
       [call |-> FALSE, items |-> 257, reports |-> 1] >>

\* The diagnostics that the first words of the program must draw.
RECURSIVE ArityReports(_)
ArityReports(count) ==
    IF count = 0 THEN <<>>
    ELSE ArityReports(count - 1) \o
         (IF ArityTable[words[count]].reports = 0 THEN <<>>
          ELSE IF ArityTable[words[count]].call
          THEN <<"Can't have more than 255 arguments.">>
          ELSE <<"Can't have more than 255 parameters.">>)

\* The items that a parsed statement collected.
Collected(stmt) ==
    IF stmt.node = "Function" THEN Len(stmt.definition.parameters)
    ELSE Len(stmt.expression.arguments)

\* C27: a list of n parameters or arguments draws the "more than 255"
\* diagnostic once when n is 256 or more, at the 256th item, and never when n
\* is 255 or fewer; the diagnostic sets the stumble flag and starts no
\* recovery, and all n items are parsed and collected.
C27_ArityCap ==
    LET done == Len(parser.statements) IN
    Len(stages) >= 2 =>
        /\ Recoveries = {}
        /\ Len(parser.diags) = Len(ArityReports(done))
        /\ \A k \in 1..Len(parser.diags) :
              /\ parser.diags[k].message = ArityReports(done)[k]
              /\ parser.diags[k].token.token_type.kind
                   \in {"Number", "Identifier"}
        /\ parser.stumbled <=> ArityReports(done) # <<>>
        /\ \A k \in 1..done :
              /\ (parser.statements[k].node = "Expression")
                   <=> ArityTable[words[k]].call
              /\ Collected(parser.statements[k]) = ArityTable[words[k]].items
        /\ ParseIsAtEnd(parser) => done = Len(words)

C27_Witness ==
    /\ words = <<2>>
    /\ pc = "exit"
    /\ Len(parser.diags) = 1
    /\ Len(parser.statements[1].expression.arguments) = 256

\* The kinds of the tokens of a list.
Kinds(tokens) == [k \in 1..Len(tokens) |-> tokens[k].token_type.kind]

\* A token list that ends with its only EOF token.
EofTerminated(tokens) ==
    /\ tokens # <<>>
    /\ Kinds(tokens)[Len(tokens)] = "EndOfFile"
    /\ \A k \in 1..(Len(tokens) - 1) : Kinds(tokens)[k] # "EndOfFile"

\* C28: after scan_tokens on any text, lexical errors and unterminated
\* strings included, the token list is not empty, its last token is the EOF
\* token and no earlier token is; every scan_token step consumes at least
\* one character of the source and stays within it; the parser never moves
\* past the end of the list.
C28_EofTerminated ==
    /\ [](Len(consumed) >= 1 => EofTerminated(scanner.tokens))
    /\ [](pc = "scan" => \A k \in 1..Len(scanner.tokens) :
                             Kinds(scanner.tokens)[k] # "EndOfFile")
    /\ [](scanner.current <= Len(scanner.source))
    /\ [][pc = "scan" /\ ~ScanIsAtEnd(scanner)
             => scanner'.current > scanner.current]_vars
    /\ [](Len(stages) >= 2 =>
             /\ parser.tokens = scanner.tokens
             /\ parser.pos \in 1..Len(parser.tokens)
             /\ ~parser.panicked)

C28_Witness ==
    /\ words = <<2, 4, 3>>
    /\ Len(consumed) = 1
    /\ scanner.stumbled
    /\ Len(scanner.tokens) = 3

\* The declarations that the parser began, in order, at the top level and
\* inside blocks.
Declared ==
    SelectSeq(parser.log, LAMBDA e : e.ev = "declaration")

\* C29: the parse ends on every token list that ends with EOF; every turn
\* of the declaration loops of parse and of block begins before EOF and
\* consumes at least one token, also when the declaration failed at its
\* first token or when the recovery stopped at once at a keyword.
C29_ParserTerminates ==
    /\ [](\A k \in 1..Len(Declared) :
             /\ Declared[k].at < Len(parser.tokens)
             /\ k > 1 => Declared[k - 1].at < Declared[k].at)
    /\ [](\A k \in Recoveries :
             (k > 1 /\ parser.log[k - 1].ev = "declaration"
                    /\ parser.log[k - 1].at = parser.log[k].at)
                 => parser.log[k].to > parser.log[k].at)
    /\ [][pc = "parse" /\ ~ParseIsAtEnd(parser)
             => parser'.pos > parser.pos]_vars
    /\ (pc = "parse") ~> (pc # "parse")

\* A declaration inside a block that failed at its first token, and a
\* recovery that stopped at once at a keyword, in a parse that has ended.
C29_Witness ==
    /\ words = <<2, 3>>
    /\ pc = "exit"
    /\ \E k \in Recoveries :
          /\ parser.log[k - 1].ev = "declaration"
          /\ parser.log[k - 1].at = parser.log[k].at
          /\ parser.log[k].at = 2
    /\ \E k \in Recoveries : parser.log[k].to = parser.log[k].at

\* The lines read at the prompt so far.
LinesRead == Len(words) - Len(stdin)

\* What a run of each line alone gives: the result of run, the lines
\* printed, the runtime diagnostics and the identifier keys handed out.
PromptTable ==
    << [result |-> "Ok", prints |-> <<"1">>, fails |-> 0, keys |-> 2],
       [result |-> "Interpret", prints |-> <<>>, fails |-> 1, keys |-> 1],
       [result |-> "Ok", prints |-> <<>>, fails |-> 0, keys |-> 2],
       [result |-> "Interpret", prints |-> <<>>, fails |-> 1, keys |-> 1],
       [result |-> "Interpret", prints |-> <<>>, fails |-> 1, keys |-> 1],
       [result |-> "Scan", prints |-> <<>>, fails |-> 0, keys |-> 0],
       [result |-> "Parse", prints |-> <<>>, fails |-> 0, keys |-> 0],
       [result |-> "Resolve", prints |-> <<>>, fails |-> 0, keys |-> 0],
       [result |-> "None", prints |-> <<>>, fails |-> 0, keys |-> 0] >>

\* The line of white space.
BlankLine == Len(PromptWords)

\* The keys of the tokens that bear one, in the order of the tokens.
KeysOf(tokens) ==
    LET keyed == SelectSeq(tokens, LAMBDA t : "id" \in DOMAIN t.token_type)
    IN  [k \in 1..Len(keyed) |-> keyed[k].token_type.id]

\* The runs begun so far.
RunsBegun == Len(SelectSeq(stages, LAMBDA stage : stage = "scan"))

\* C30: at the prompt every line that is not empty is run through a new
\* scanner, parser, resolver and interpreter whose global scope holds only
\* clock: the identifier keys of a line begin at 0, and the result, the
\* output and the diagnostics of a line are those of the line alone,
\* whatever the lines before it defined or whichever error they ended in;
\* an error of any class leads back to the prompt, and the loop ends only at
\* an empty line, with exit code 0.
C30_LinesIndependent ==
    /\ [](argc = 0 =>
            /\ pc # "panic"
            /\ \A k \in 1..Len(KeysOf(scanner.tokens)) :
                  KeysOf(scanner.tokens)[k] = k - 1
            /\ pc \in {"scan", "parse", "resolve", "interpret", "run_done"}
                 => /\ scanner.source = Trim(PromptWords[words[LinesRead]])
                    /\ RunsBegun = LinesRead
            /\ (pc = "interpret" /\ cursor = 1)
                 => interp = InterpreterNew(resolver.resolutions)
            /\ pc = "run_done" =>
                  LET alone == PromptTable[words[LinesRead]] IN
                  /\ result = alone.result
                  /\ scanner.identifier_key = alone.keys
                  /\ result \in {"Ok", "Interpret"} =>
                        /\ interp.output = alone.prints
                        /\ Len(interp.diags) = alone.fails
            /\ pc = "exit" =>
                  /\ exit = {ExitOk}
                  /\ \A k \in 1..(LinesRead - 1) : words[k] # BlankLine
                  /\ \/ LinesRead > 0 /\ words[LinesRead] = BlankLine
                               /\ RunsBegun = LinesRead - 1
                     \/ stdin = <<>> /\ RunsBegun = LinesRead)
    /\ [][pc = "run_done" => pc' = "prompt" /\ stdin' = stdin]_vars

\* A line that fails at run time after a line that defined the name, and a
\* third line that is run after it.
C30_Witness ==
    /\ words = <<1, 2, 1>>
    /\ pc = "run_done"
    /\ LinesRead = 3
    /\ consumed = <<TRUE, TRUE, TRUE, TRUE, TRUE, TRUE, TRUE, FALSE,
                    TRUE, TRUE, TRUE, TRUE>>
    /\ interp.output = <<"1">>

=============================================================================
